---- MODULE Spec2Model ----
(***************************************************************************)
(* A model of wezterm's text rendering core:                               *)
(*   - wezterm-font/src/lib.rs      FontConfiguration (style matching,     *)
(*                                  font resolution cache, scaling)        *)
(*   - wezterm-font/src/parser.rs   ParsedFont::match_font_info            *)
(*   - src/frontend/gui/termwindow.rs  TermWindow (paint, resize, reload)  *)
(*   - window/src/os/windows/window.rs  Window, WindowInner, wnd_proc       *)
(*                                                                         *)
(* Conventions:                                                            *)
(*   Option<T>        None is <<>>, Some(x) is <<x>>                       *)
(*   Result<T, E>     [ok |-> TRUE, val |-> x] / [ok |-> FALSE, err |-> e] *)
(*   f64 font scale   fixed point, in thousandths (1000 is 1.0)            *)
(*   f64 dpi scale    window dpi / 96., kept as the numerator (in 96ths)   *)
(***************************************************************************)
EXTENDS Integers, Sequences, FiniteSets, TLC

VARIABLES
    config,      \* the value configuration() returns: contents + generation
    fonts,       \* the FontConfiguration (lib.rs:75-82)
    ret,         \* what the last FontConfiguration call did and returned
    allocs,      \* number of LoadedFont instances the calls below have built
    h_resolved,  \* history: per style, the instance resolve_font returned last,
                 \* forgotten at every config reload and change_scaling
    win,         \* the TermWindow (termwindow.rs): its fields, None before new_window
    tab,         \* the active tab's Renderable: dirty lines and what is on screen
    timer,       \* the 35ms timer closure: last_config_generation, queued apply
    paint,       \* the paint call in progress: position, pass, lines left
    log,         \* what the paint call in progress has done so far
    panic,       \* None, or Some(message) once the process has panicked
    os,          \* the window of the Windows backend (window.rs): new_window's
                 \* position, the Arc of the WindowInner, the window's user data
    mux          \* the Mux's window of the TermWindow: its number of tabs and
                 \* the index of the active one

fontVars == <<config, fonts, ret, allocs, h_resolved>>

windowVars == <<win, tab, timer, paint, log, panic, os, mux>>

vars ==
    <<config, fonts, ret, allocs, h_resolved, win, tab, timer, paint, log, panic, os, mux>>

----------------------------------------------------------------------------
(* Bounds of the model *)

MaxGeneration == 1     \* config reloads followed
MaxAllocs == 3         \* LoadedFont instances built by direct calls
NumLines == 2          \* rows of the active tab's viewport
PhysicalCols == 4      \* columns of the active tab's viewport
MaxRetries == 2        \* atlas overflows followed within one paint call
MaxTextureSize == 8192  \* largest atlas the graphics stack can allocate
MinFontScale == 990    \* font scales followed, in thousandths
MaxTicks == 60           \* timer ticks followed after the window is created
MaxFallbackIdx == 4      \* fallback indices passed to rasterize_glyph: 0..MaxFallbackIdx
MaxFontScale == 1100

----------------------------------------------------------------------------
(* Option / Result *)

None == <<>>
Some(x) == <<x>>
IsSome(o) == o # <<>>
Unwrap(o) == o[1]

Ok(x) == [ok |-> TRUE, val |-> x]
Err(e) == [ok |-> FALSE, err |-> e]

EmptyMap == <<>>

----------------------------------------------------------------------------
(* Data model: FontAttributes, TextStyle, font rules, the configuration *)

FontAttributes(family, bold, italic, is_fallback) ==
    [family |-> family, bold |-> bold, italic |-> italic, is_fallback |-> is_fallback]

TextStyle(font, foreground) == [font |-> font, foreground |-> foreground]

StyleRegular ==
    TextStyle(<<FontAttributes("JetBrains Mono", FALSE, FALSE, FALSE),
                FontAttributes("Noto Color Emoji", FALSE, FALSE, TRUE)>>, None)

StyleBold ==
    TextStyle(<<FontAttributes("JetBrains Mono", TRUE, FALSE, FALSE),
                FontAttributes("Noto Color Emoji", FALSE, FALSE, TRUE)>>, None)

StyleItalic ==
    TextStyle(<<FontAttributes("Operator Mono", FALSE, TRUE, FALSE),
                FontAttributes("JetBrains Mono", FALSE, TRUE, TRUE)>>, Some("red"))

StyleFancy ==
    TextStyle(<<FontAttributes("Fira Code", FALSE, FALSE, FALSE),
                FontAttributes("Unobtainium", FALSE, FALSE, TRUE)>>, None)

(* Two preferred attributes, requested in the reverse of the order of the  *)
(* fonts' full names.                                                      *)
StyleSlanted ==
    TextStyle(<<FontAttributes("JetBrains Mono", FALSE, TRUE, FALSE),
                FontAttributes("JetBrains Mono", TRUE, TRUE, FALSE),
                FontAttributes("Noto Color Emoji", FALSE, FALSE, TRUE)>>, None)

(* A font that exists nowhere, and no fallback. *)
StyleUnknown ==
    TextStyle(<<FontAttributes("Unobtainium", FALSE, FALSE, FALSE)>>, None)

Styles ==
    {StyleRegular, StyleBold, StyleItalic, StyleFancy, StyleSlanted, StyleUnknown}

Predicates ==
    {"intensity", "underline", "italic", "blink", "reverse", "strikethrough", "invisible"}

AnyCell ==
    [intensity |-> None, underline |-> None, italic |-> None, blink |-> None,
     reverse |-> None, strikethrough |-> None, invisible |-> None]

FontRule(preds, style) == [preds |-> preds, font |-> style]

CellAttrs ==
    [intensity : {"Normal", "Bold", "Half"},
     underline : {"None", "Single", "Double"},
     italic : BOOLEAN, blink : BOOLEAN, reverse : BOOLEAN,
     strikethrough : BOOLEAN, invisible : BOOLEAN]

Padding(left, top, right, bottom) ==
    [left |-> left, top |-> top, right |-> right, bottom |-> bottom]

(* The configurations a reload may deliver. *)
Configs ==
    << [font_size |-> 10, dpi |-> 96, font |-> StyleRegular,
        cursor_blink_rate |-> 500, default_cursor_style |-> "SteadyBlock",
        enable_tab_bar |-> TRUE, window_padding |-> Padding(0, 0, 0, 0),
        font_rules |->
          << FontRule([AnyCell EXCEPT !.italic = Some(TRUE)], StyleItalic),
             FontRule([AnyCell EXCEPT !.intensity = Some("Bold")], StyleBold),
             FontRule([AnyCell EXCEPT !.intensity = Some("Bold"),
                                      !.italic = Some(TRUE)], StyleFancy) >>],
       [font_size |-> 12, dpi |-> 96, font |-> StyleRegular,
        cursor_blink_rate |-> 0, default_cursor_style |-> "BlinkingBar",
        enable_tab_bar |-> FALSE, window_padding |-> Padding(2, 2, 2, 2),
        font_rules |->
          << FontRule([AnyCell EXCEPT !.underline = Some("Single"),
                                      !.blink = Some(TRUE)], StyleFancy),
             FontRule([AnyCell EXCEPT !.strikethrough = Some(FALSE),
                                      !.invisible = Some(TRUE)], StyleItalic),
             FontRule([AnyCell EXCEPT !.intensity = Some("Half"),
                                      !.reverse = Some(FALSE)], StyleBold) >>],
       [font_size |-> 10, dpi |-> 192, font |-> StyleFancy,
        cursor_blink_rate |-> 100, default_cursor_style |-> "BlinkingBlock",
        enable_tab_bar |-> TRUE, window_padding |-> Padding(4, 0, 4, 0),
        font_rules |->
          << FontRule([AnyCell EXCEPT !.reverse = Some(TRUE)], StyleItalic),
             FontRule(AnyCell, StyleBold),
             FontRule([AnyCell EXCEPT !.blink = Some(TRUE)], StyleRegular) >>] >>

ConfigValue(i, generation) ==
    [generation |-> generation,
     font_size |-> Configs[i].font_size,
     dpi |-> Configs[i].dpi,
     cursor_blink_rate |-> Configs[i].cursor_blink_rate,
     default_cursor_style |-> Configs[i].default_cursor_style,
     enable_tab_bar |-> Configs[i].enable_tab_bar,
     window_padding |-> Configs[i].window_padding,
     font |-> Configs[i].font,
     font_rules |-> Configs[i].font_rules]

----------------------------------------------------------------------------
(* FontConfiguration::match_style (lib.rs:256-291) *)

(* The attr_match! macro: an unspecified rule value matches implicitly, a  *)
(* specified one must equal the cell's attribute.                          *)
attr_match_unset_fails(rule_value, attr_value) ==
    rule_value # None /\ Unwrap(rule_value) = attr_value

attr_match(rule_value, attr_value) ==
    IF rule_value # None
    THEN (IF Unwrap(rule_value) # attr_value THEN FALSE ELSE TRUE)
    ELSE TRUE

RECURSIVE match_style_from(_, _, _)
match_style_from(cfg, attrs, i) ==
    IF i > Len(cfg.font_rules) THEN cfg.font
    ELSE
      LET rule == cfg.font_rules[i] IN
      IF ~attr_match(rule.preds.intensity, attrs.intensity)
        THEN match_style_from(cfg, attrs, i + 1)
      ELSE IF ~attr_match(rule.preds.underline, attrs.underline)
        THEN match_style_from(cfg, attrs, i + 1)
      ELSE IF ~attr_match(rule.preds.italic, attrs.italic)
        THEN match_style_from(cfg, attrs, i + 1)
      ELSE IF ~attr_match(rule.preds.blink, attrs.blink)
        THEN match_style_from(cfg, attrs, i + 1)
      ELSE IF ~attr_match(rule.preds.reverse, attrs.reverse)
        THEN match_style_from(cfg, attrs, i + 1)
      ELSE IF ~attr_match(rule.preds.strikethrough, attrs.strikethrough)
        THEN match_style_from(cfg, attrs, i + 1)
      ELSE IF ~attr_match(rule.preds.invisible, attrs.invisible)
        THEN match_style_from(cfg, attrs, i + 1)
      ELSE rule.font

match_style(cfg, attrs) == match_style_from(cfg, attrs, 1)

----------------------------------------------------------------------------
(* Fonts that exist outside the program: in the configured font_dirs, known *)
(* to the platform locator, and bundled (parser.rs:574-591).                *)

FontInfo(full_name, family, sub_family, handle) ==
    [names |-> [full_name |-> full_name, family |-> family, sub_family |-> sub_family],
     handle |-> handle]

(* Lexicographic order of the full names in play (String's Ord). *)
FullNamesSorted ==
    << "Fira Code Regular", "JetBrains Mono Bold", "JetBrains Mono Bold Italic",
       "JetBrains Mono ExtraBold", "JetBrains Mono Italic", "JetBrains Mono Regular",
       "LastResortHE-Regular", "Noto Color Emoji" >>

NameRank(full_name) ==
    CHOOSE i \in 1..Len(FullNamesSorted) : FullNamesSorted[i] = full_name

(* Files found below config.font_dirs; the same font is installed twice. *)
DirFonts ==
    { FontInfo("Fira Code Regular", Some("Fira Code"), Some("Regular"), "disk:a/FiraCode.ttf"),
      FontInfo("Fira Code Regular", Some("Fira Code"), Some("Regular"), "disk:b/FiraCode.ttf"),
      FontInfo("JetBrains Mono Bold", Some("JetBrains Mono"), Some("Bold"), "disk:JetBrainsMono-Bold.ttf") }

(* The names of the files, for writing down a walk. *)
DirFont(handle) == CHOOSE f \in DirFonts : f.handle = handle

(* Every order in which the directory walk may discover the files. *)
Discoveries ==
    { s \in [1..Cardinality(DirFonts) -> DirFonts] :
        \A i, j \in 1..Cardinality(DirFonts) : i # j => s[i] # s[j] }

(* The two orders of discovery followed. *)
Walks ==
    {<<DirFont("disk:a/FiraCode.ttf"), DirFont("disk:b/FiraCode.ttf"),
       DirFont("disk:JetBrainsMono-Bold.ttf")>>,
     <<DirFont("disk:JetBrainsMono-Bold.ttf"), DirFont("disk:b/FiraCode.ttf"),
       DirFont("disk:a/FiraCode.ttf")>>}

(* Families the platform locator can find. *)
LocatorFamilies == {"JetBrains Mono", "Noto Color Emoji"}

BuiltInFonts ==
    << FontInfo("JetBrains Mono Bold Italic", Some("JetBrains Mono"), Some("Bold Italic"), "memory:JetBrainsMono-Bold-Italic.ttf"),
       FontInfo("JetBrains Mono Bold", Some("JetBrains Mono"), Some("Bold"), "memory:JetBrainsMono-Bold.ttf"),
       FontInfo("JetBrains Mono ExtraBold", Some("JetBrains Mono ExtraBold"), Some("Regular"), "memory:JetBrainsMono-ExtraBold.ttf"),
       FontInfo("JetBrains Mono Italic", Some("JetBrains Mono"), Some("Italic"), "memory:JetBrainsMono-Italic.ttf"),
       FontInfo("JetBrains Mono Regular", Some("JetBrains Mono"), Some("Regular"), "memory:JetBrainsMono-Regular.ttf"),
       FontInfo("Noto Color Emoji", Some("Noto Color Emoji"), Some("Regular"), "memory:NotoColorEmoji.ttf"),
       FontInfo("LastResortHE-Regular", Some("LastResortHE"), Some("Regular"), "memory:LastResortHE-Regular.ttf") >>

----------------------------------------------------------------------------
(* parser.rs: font_info_matches, ParsedFont::match_font_info, load_fonts *)

font_info_matches(attr, names) ==
    IF /\ IsSome(names.family)
       /\ attr.family = Unwrap(names.family)
       /\ \/ names.sub_family = Some("Italic") /\ attr.italic /\ ~attr.bold
          \/ names.sub_family = Some("Bold") /\ attr.bold /\ ~attr.italic
          \/ names.sub_family = Some("Bold Italic") /\ attr.bold /\ attr.italic
          \/ /\ names.sub_family \in {Some("Medium"), Some("Regular"), None}
             /\ ~attr.italic /\ ~attr.bold
    THEN TRUE
    ELSE attr.family = names.full_name /\ ~attr.bold /\ ~attr.italic

(* Vec::sort_by_key on the full name: a stable sort. *)
RECURSIVE InsertByFullName(_, _)
InsertByFullName(sorted, info) ==
    IF sorted = <<>> THEN <<info>>
    ELSE IF NameRank(info.names.full_name) < NameRank(Head(sorted).names.full_name)
         THEN <<info>> \o sorted
         ELSE <<Head(sorted)>> \o InsertByFullName(Tail(sorted), info)

RECURSIVE sort_by_full_name(_)
sort_by_full_name(font_info) ==
    IF font_info = <<>> THEN <<>>
    ELSE InsertByFullName(sort_by_full_name(SubSeq(font_info, 1, Len(font_info) - 1)),
                          font_info[Len(font_info)])

(* The first entry of font_info that matches attr, as a 0- or 1-element handle list. *)
RECURSIVE first_match(_, _, _)
first_match(attr, font_info, i) ==
    IF i > Len(font_info) THEN <<>>
    ELSE IF font_info_matches(attr, font_info[i].names) THEN <<font_info[i].handle>>
    ELSE first_match(attr, font_info, i + 1)

RECURSIVE match_font_info_pushes_front(_, _, _, _, _)
match_font_info_pushes_front(fonts_selection, font_info, loaded, handles, k) ==
    IF k > Len(fonts_selection) THEN [handles |-> handles, loaded |-> loaded]
    ELSE
      LET attr == fonts_selection[k]
          hit == first_match(attr, font_info, 1)
      IN match_font_info_pushes_front(fonts_selection, font_info,
                              IF hit # <<>> THEN loaded \cup {attr} ELSE loaded,
                              IF hit # <<>>
                              THEN <<[handle |-> hit[1], attr |-> attr]>> \o handles
                              ELSE handles,
                              k + 1)

(* Returns the handles pushed and the loaded set after the call; a handle *)
(* is pushed as [handle, attr], attr being the attribute it was pushed    *)
(* for (history).                                                          *)
RECURSIVE match_font_info_from(_, _, _, _, _)
match_font_info_from(fonts_selection, font_info, loaded, handles, k) ==
    IF k > Len(fonts_selection) THEN [handles |-> handles, loaded |-> loaded]
    ELSE
      LET attr == fonts_selection[k]
          hit == first_match(attr, font_info, 1)
      IN match_font_info_from(fonts_selection, font_info,
                              IF hit # <<>> THEN loaded \cup {attr} ELSE loaded,
                              IF hit # <<>>
                              THEN Append(handles, [handle |-> hit[1], attr |-> attr])
                              ELSE handles,
                              k + 1)

match_font_info(fonts_selection, font_info, loaded) ==
    match_font_info_from(fonts_selection, sort_by_full_name(font_info), loaded, <<>>, 1)

load_fonts(discovered, fonts_selection, loaded) ==
    match_font_info(fonts_selection, discovered, loaded)

load_built_in_fonts(fonts_selection, loaded) ==
    match_font_info(fonts_selection, BuiltInFonts, loaded)

(* FontLocator::load_fonts: the platform locator, which skips what is      *)
(* already satisfied and finds a font by its family.                       *)
RECURSIVE locator_load_fonts_from(_, _, _, _)
locator_load_fonts_from(fonts_selection, loaded, handles, k) ==
    IF k > Len(fonts_selection) THEN [handles |-> handles, loaded |-> loaded]
    ELSE
      LET attr == fonts_selection[k]
          found == attr \notin loaded /\ attr.family \in LocatorFamilies
                   /\ ~attr.bold /\ ~attr.italic
      IN locator_load_fonts_from(fonts_selection,
                                 IF found THEN loaded \cup {attr} ELSE loaded,
                                 IF found
                                 THEN Append(handles, [handle |-> "sys:" \o attr.family,
                                                       attr |-> attr])
                                 ELSE handles,
                                 k + 1)

locator_load_fonts(fonts_selection, loaded) ==
    locator_load_fonts_from(fonts_selection, loaded, <<>>, 1)

----------------------------------------------------------------------------
(* FontConfiguration (lib.rs:75-251) *)

(* FontShaper::metrics(font_size, dpi): the cell size in pixels of the     *)
(* primary font at that size (font_size in thousandths of a point, 72      *)
(* points to the inch; the cell is half as wide as it is high).            *)
shaper_metrics(font_size, dpi, generation) ==
    [cell_height |-> (font_size * dpi * 5) \div (72000 * 4),
     cell_width |-> (font_size * dpi * 5) \div (72000 * 8),
     gen |-> generation]      \* history: the config generation it was computed under

(* `*self.dpi_scale.borrow() as u32 * config.dpi as u32` (lib.rs:204): the  *)
(* scale is truncated to an integer before the product (which stays far    *)
(* below 2^32 for every dpi in play).                                      *)
effective_dpi(dpi_scale, cfg_dpi) == (dpi_scale \div 96) * cfg_dpi

(* `config.font_size * *self.font_scale.borrow()` (lib.rs:203) *)
effective_font_size(font_scale, cfg_font_size) == cfg_font_size * font_scale

(* FontConfiguration::new (lib.rs:86-96) *)
new_FontConfiguration(cfg) ==
    [fonts |-> EmptyMap,
     metrics |-> None,
     font_scale |-> 1000,
     dpi_scale |-> 96,
     config_generation |-> cfg.generation]

(* What the search leaves behind: the handle list, the attribute each     *)
(* handle was pushed for (history), and the `loaded` set.                  *)
search_result(pushed, loaded) ==
    [handles |-> [i \in 1..Len(pushed) |-> pushed[i].handle],
     origins |-> [i \in 1..Len(pushed) |-> pushed[i].attr],
     loaded |-> loaded]

(* resolve_font, lib.rs:116-149: the six search stages over one shared     *)
(* `loaded` set; walk1 and walk2 are the orders in which the two directory *)
(* walks discover the font files.                                          *)
font_search_stages(style, walk1, walk2) ==
    LET attributes == style.font
        preferred_attributes == SelectSeq(attributes, LAMBDA a : ~a.is_fallback)
        fallback_attributes == SelectSeq(attributes, LAMBDA a : a.is_fallback)
        s1 == load_fonts(walk1, preferred_attributes, {})
        s2 == locator_load_fonts(preferred_attributes, s1.loaded)
        s3 == load_built_in_fonts(preferred_attributes, s2.loaded)
        s4 == load_fonts(walk2, fallback_attributes, s3.loaded)
        s5 == locator_load_fonts(fallback_attributes, s4.loaded)
        s6 == load_built_in_fonts(fallback_attributes, s5.loaded)
    IN search_result(s1.handles \o s2.handles \o s3.handles
                     \o s4.handles \o s5.handles \o s6.handles,
                     s6.loaded)

(* The search is a function of the style and the two walks: it is computed *)
(* once per argument and looked up afterwards.                             *)
FontSearchTable ==
    [k \in Styles \X Walks \X Walks |->
        font_search_stages(k[1], k[2], k[3])] @@ <<>>

font_search(style, walk1, walk2) == FontSearchTable[<<style, walk1, walk2>>]

(* resolve_font, lib.rs:151-194: one message per preferred attribute that  *)
(* was not loaded, worded by where the attribute comes from.               *)
RECURSIVE configuration_warnings(_, _, _, _)
configuration_warnings(cfg, attributes, loaded, k) ==
    IF k > Len(attributes) THEN <<>>
    ELSE
      LET attr == attributes[k]
          is_primary == \E i \in 1..Len(cfg.font.font) : cfg.font.font[i] = attr
          derived_from_primary ==
              \E i \in 1..Len(cfg.font.font) : cfg.font.font[i].family = attr.family
          kind == IF is_primary THEN "font"
                  ELSE IF derived_from_primary THEN "font_rules (derived)"
                  ELSE "font_rules"
      IN (IF ~attr.is_fallback /\ attr \notin loaded
          THEN <<[attr |-> attr, kind |-> kind]>> ELSE <<>>)
         \o configuration_warnings(cfg, attributes, loaded, k + 1)

(* The generation check that opens resolve_font (lib.rs:103-110). *)
invalidate_if_reloaded_keeps_cache(fc, cfg) ==
    [fc EXCEPT !.config_generation = cfg.generation]

invalidate_if_reloaded(fc, cfg) ==
    IF cfg.generation # fc.config_generation
    THEN [fc EXCEPT !.fonts = EmptyMap,
                    !.metrics = None,
                    !.config_generation = cfg.generation]
    ELSE fc

(* The memoization lookup (lib.rs:112-114). *)
cache_lookup_never_hits(fc, style) == None

cache_lookup(fc, style) ==
    IF style \in DOMAIN fc.fonts THEN Some(fc.fonts[style]) ELSE None

(* `rasterizers.push(RefCell::new(None))` for each handle (lib.rs:196-199); *)
(* `built` counts the rasterizers constructed for the cell (history).      *)
new_rasterizers(handles) ==
    [i \in 1..Len(handles) |-> [raster |-> None, built |-> 0]]

(* new_rasterizer(selection, &self.handles[fallback]): `serial` is the     *)
(* number of this rasterizer among those constructed for its index.        *)
new_rasterizer(handle, serial) == [handle |-> handle, serial |-> serial]

(* LoadedFont::rasterize_glyph (lib.rs:49-71); fallback counts from 0.     *)
(* raster_ok is whether new_rasterizer succeeds, glyph_ok whether the      *)
(* rasterizer's rasterize_glyph does.  Yields the LoadedFont afterwards,   *)
(* the Result and the rasterizer the glyph was asked of.                   *)
rasterize_glyph_rebuilds(font, fallback, raster_ok, glyph_ok) ==
    LET i == fallback + 1 IN
    IF i > Len(font.rasterizers)
    THEN [font |-> font, result |-> Err("no such fallback index"), used |-> None]
    ELSE IF ~raster_ok
    THEN [font |-> font, result |-> Err("new_rasterizer"), used |-> None]
    ELSE [font |-> [font EXCEPT !.rasterizers[i] =
                      [raster |-> Some(new_rasterizer(font.handles[i], @.built + 1)),
                       built |-> @.built + 1]],
          result |-> IF glyph_ok THEN Ok("glyph") ELSE Err("rasterize_glyph"),
          used |-> Some(new_rasterizer(font.handles[i],
                                       font.rasterizers[i].built + 1))]

rasterize_glyph(font, fallback, raster_ok, glyph_ok) ==
    LET i == fallback + 1 IN
    IF i > Len(font.rasterizers)
    THEN [font |-> font, result |-> Err("no such fallback index"), used |-> None]
    ELSE IF font.rasterizers[i].raster = None /\ ~raster_ok
    THEN [font |-> font, result |-> Err("new_rasterizer"), used |-> None]
    ELSE
      LET cell == font.rasterizers[i]
          filled == IF cell.raster = None
                    THEN [raster |-> Some(new_rasterizer(font.handles[i], cell.built + 1)),
                          built |-> cell.built + 1]
                    ELSE cell
      IN [font |-> [font EXCEPT !.rasterizers[i] = filled],
          result |-> IF glyph_ok THEN Ok("glyph") ELSE Err("rasterize_glyph"),
          used |-> filled.raster]

(* `fonts.insert(style.clone(), Rc::clone(&loaded))` (lib.rs:216) *)
fonts_insert_dropped(fc0, style, loaded) == fc0

fonts_insert(fc0, style, loaded) ==
    [fc0 EXCEPT !.fonts = (style :> loaded) @@ fc0.fonts]

(* resolve_font after a miss (lib.rs:151-218): the warnings, the shaper,   *)
(* the LoadedFont and its insertion; `found` is what the search produced.  *)
resolve_font_insert(fc0, cfg, style, found, cleared, shaper_ok) ==
    LET warnings == configuration_warnings(cfg, style.font, found.loaded, 1)
        font_size == effective_font_size(fc0.font_scale, cfg.font_size)
        dpi == effective_dpi(fc0.dpi_scale, cfg.dpi)
        loaded == [handles |-> found.handles,
                   origins |-> found.origins,   \* history: attribute of each handle
                   rasterizers |-> new_rasterizers(found.handles),
                   font_size |-> font_size,
                   dpi |-> dpi,
                   metrics |-> shaper_metrics(font_size, dpi, cfg.generation),
                   gen |-> cfg.generation]   \* history: generation at insertion
    IN
    IF ~shaper_ok
    THEN [fc |-> fc0, result |-> Err("shaper"), cleared |-> cleared,
          searches |-> 1, warnings |-> warnings, shapers |-> 0, allocated |-> FALSE]
    ELSE [fc |-> fonts_insert(fc0, style, loaded),
          result |-> Ok(loaded), cleared |-> cleared,
          searches |-> 1, warnings |-> warnings, shapers |-> 1, allocated |-> TRUE]

(* resolve_font from the lookup on (lib.rs:112-219); fc0 is the            *)
(* FontConfiguration after the generation check.                           *)
resolve_font_lookup(fc0, cfg, style, cleared, walk1, walk2, shaper_ok) ==
    LET entry == cache_lookup(fc0, style) IN
    IF IsSome(entry)
    THEN [fc |-> fc0, result |-> Ok(Unwrap(entry)), cleared |-> cleared,
          searches |-> 0, warnings |-> <<>>, shapers |-> 0, allocated |-> FALSE]
    ELSE resolve_font_insert(fc0, cfg, style, font_search(style, walk1, walk2),
                             cleared, shaper_ok)

(* FontConfiguration::resolve_font (lib.rs:100-219).  shaper_ok is whether *)
(* new_shaper and shaper.metrics succeed.  Yields the FontConfiguration    *)
(* afterwards, the Result, and what the call did; `allocated` tells a      *)
(* newly built Rc<LoadedFont> from a clone of the memoized one.            *)
resolve_font(fc, cfg, style, walk1, walk2, shaper_ok) ==
    resolve_font_lookup(invalidate_if_reloaded(fc, cfg), cfg, style,
                        cfg.generation # fc.config_generation,
                        walk1, walk2, shaper_ok)

(* FontConfiguration::change_scaling (lib.rs:221-226) *)
change_scaling_only_on_change(fc, font_scale, dpi_scale) ==
    IF font_scale = fc.font_scale /\ dpi_scale = fc.dpi_scale THEN fc
    ELSE [fc EXCEPT !.dpi_scale = dpi_scale, !.font_scale = font_scale,
                    !.fonts = EmptyMap, !.metrics = None]

change_scaling(fc, font_scale, dpi_scale) ==
    [fc EXCEPT !.dpi_scale = dpi_scale,
               !.font_scale = font_scale,
               !.fonts = EmptyMap,
               !.metrics = None]

(* FontConfiguration::default_font (lib.rs:229-231) *)
default_font(fc, cfg, walk1, walk2, shaper_ok) ==
    resolve_font(fc, cfg, cfg.font, walk1, walk2, shaper_ok)

(* FontConfiguration::get_font_scale (lib.rs:233-235) *)
get_font_scale(fc) == fc.font_scale

(* default_font_metrics after a miss (lib.rs:245-250); r is what           *)
(* default_font returned.                                                  *)
default_font_metrics_store(r) ==
    IF ~r.result.ok
    THEN [fc |-> r.fc, result |-> r.result, resolved |-> None,
          allocated |-> FALSE]
    ELSE [fc |-> [r.fc EXCEPT !.metrics = Some(r.result.val.metrics)],
          result |-> Ok(r.result.val.metrics),
          resolved |-> Some(r.result.val),
          allocated |-> r.allocated]

(* FontConfiguration::default_font_metrics (lib.rs:237-251): the cached    *)
(* metrics are returned as they are; only a miss goes through resolve_font.*)
default_font_metrics(fc, cfg, walk1, walk2, shaper_ok) ==
    IF IsSome(fc.metrics)
    THEN [fc |-> fc, result |-> Ok(Unwrap(fc.metrics)), resolved |-> None,
          allocated |-> FALSE]
    ELSE default_font_metrics_store(default_font(fc, cfg, walk1, walk2, shaper_ok))

----------------------------------------------------------------------------
(* ParsedFont::shape_text (parser.rs:319-518).                             *)
(*                                                                         *)
(* A char is known by its scalar value, the bytes of its UTF-8 encoding,   *)
(* whether VariationSelector::try_from accepts it, whether its general     *)
(* category is EnclosingMark, and its column width.  A text is a sequence  *)
(* of chars.                                                               *)

Char(c, len_utf8, vs, enclosing, width) ==
    [c |-> c, len_utf8 |-> len_utf8, vs |-> vs, enclosing |-> enclosing,
     width |-> width]

LatinF == Char("f", 1, FALSE, FALSE, 1)
LatinI == Char("i", 1, FALSE, FALSE, 1)
VS16 == Char("U+FE0F", 3, TRUE, FALSE, 0)
Keycap == Char("U+20E3", 3, FALSE, TRUE, 0)
Grinning == Char("U+1F600", 4, FALSE, FALSE, 2)

(* str::len: the bytes of a string. *)
RECURSIVE len(_)
len(s) == IF s = <<>> THEN 0 ELSE Head(s).len_utf8 + len(Tail(s))

(* unicode_column_width *)
RECURSIVE unicode_column_width(_)
unicode_column_width(s) ==
    IF s = <<>> THEN 0 ELSE Head(s).width + unicode_column_width(Tail(s))

(* The runs of the first loop: `enum Run` (parser.rs:329-333).  A RawGlyph *)
(* keeps its unicodes and its variation; at is the index in the text of    *)
(* the first char it stands for (history).                                 *)
RawGlyph(unicodes, variation, at) ==
    [unicodes |-> unicodes, variation |-> variation, at |-> at]

RunGlyphs(glyphs) == [kind |-> "Glyphs", glyphs |-> glyphs, raw |-> <<>>, at |-> 0]

RunUnresolved(raw, at) == [kind |-> "Unresolved", glyphs |-> <<>>, raw |-> raw, at |-> at]

(* self.glyph_index_for_char(c).is_ok() *)
glyph_index_for_char(font, c) == c.c \in font.cmap

last_is(runs, kind) == runs # <<>> /\ runs[Len(runs)].kind = kind

(* `glyphs.push(glyph)` on the last run or a new run (parser.rs:367-371) *)
push_glyph(runs, glyph) ==
    IF last_is(runs, "Glyphs")
    THEN [runs EXCEPT ![Len(runs)].glyphs = Append(@, glyph)]
    ELSE Append(runs, RunGlyphs(<<glyph>>))

(* The prior glyph is popped and synthesized into an Unresolved run with   *)
(* its variation selector (parser.rs:383-404).                             *)
sweep_prior_glyph(runs) ==
    IF last_is(runs, "Glyphs") /\ runs[Len(runs)].glyphs # <<>>
    THEN LET glyphs == runs[Len(runs)].glyphs
             glyph == glyphs[Len(glyphs)]
         IN Append([runs EXCEPT ![Len(runs)].glyphs = SubSeq(glyphs, 1, Len(glyphs) - 1)],
                   RunUnresolved(<<glyph.unicodes[1]>>
                                   \o (IF IsSome(glyph.variation)
                                       THEN <<Unwrap(glyph.variation)>> ELSE <<>>),
                                 glyph.at))
    ELSE runs

(* `s.push(c)` on the last run or a new run (parser.rs:408-412) *)
push_unresolved(runs, c, at) ==
    IF last_is(runs, "Unresolved")
    THEN [runs EXCEPT ![Len(runs)].raw = Append(@, c)]
    ELSE Append(runs, RunUnresolved(<<c>>, at))

(* The variation selector that follows is pushed too (parser.rs:416-420). *)
push_variation(runs, variation) ==
    IF IsSome(variation) /\ last_is(runs, "Unresolved")
    THEN [runs EXCEPT ![Len(runs)].raw = Append(@, Unwrap(variation))]
    ELSE runs

(* One turn of `while let Some(c) = chars_iter.next()` for the char at     *)
(* index i (parser.rs:340-425).                                            *)
next_char(font, text, i, runs) ==
    LET c == text[i]
        variation == IF i < Len(text) /\ text[i + 1].vs
                     THEN Some(text[i + 1]) ELSE None
    IN IF c.vs THEN runs
       ELSE IF glyph_index_for_char(font, c)
       THEN push_glyph(runs, RawGlyph(<<c>>, variation, i))
       ELSE push_variation(
                push_unresolved(IF c.enclosing THEN sweep_prior_glyph(runs)
                                ELSE runs,
                                c, i),
                variation)

RECURSIVE collect_runs(_, _, _, _)
collect_runs(font, text, i, runs) ==
    IF i > Len(text) THEN runs
    ELSE collect_runs(font, text, i + 1, next_char(font, text, i, runs))

(* gsub_apply_default as called at parser.rs:443-454: the ligatures of the *)
(* font replace two glyphs by one that stands for the chars of both; none  *)
(* is applied without a GSUB table.                                        *)
RECURSIVE gsub_apply_default(_, _)
gsub_apply_default(font, glyphs) ==
    IF Len(glyphs) < 2 THEN glyphs
    ELSE IF /\ <<glyphs[1].unicodes[Len(glyphs[1].unicodes)].c,
                 glyphs[2].unicodes[1].c>> \in font.ligatures
            /\ glyphs[1].variation = None /\ glyphs[2].variation = None
    THEN gsub_apply_default(font,
             <<RawGlyph(glyphs[1].unicodes \o glyphs[2].unicodes, None,
                        glyphs[1].at)>> \o SubSeq(glyphs, 3, Len(glyphs)))
    ELSE <<glyphs[1]>> \o gsub_apply_default(font, Tail(glyphs))

(* `fn reverse_engineer_glyph_text` (parser.rs:470-472) *)
reverse_engineer_glyph_text(glyph) == glyph.unicodes

(* MaybeShaped::Resolved(GlyphInfo) and MaybeShaped::Unresolved; at as in  *)
(* RawGlyph (history).  `cluster as u32` keeps the offsets of these texts, *)
(* `num_cells as u8` is the width modulo 256.                              *)
Resolved(cluster, text, at) ==
    [kind |-> "Resolved", cluster |-> cluster,
     num_cells |-> unicode_column_width(text) % 256, slice_start |-> 0,
     raw |-> text, at |-> at]

Unresolved(raw, slice_start, at) ==
    [kind |-> "Unresolved", cluster |-> 0, num_cells |-> 0,
     slice_start |-> slice_start, raw |-> raw, at |-> at]

(* `for glyph_info in infos.into_iter()` with `cluster += text_len`        *)
(* (parser.rs:474-512)                                                     *)
RECURSIVE shape_glyphs(_, _)
shape_glyphs(glyphs, cluster) ==
    IF glyphs = <<>> THEN <<>>
    ELSE <<Resolved(cluster, reverse_engineer_glyph_text(Head(glyphs)),
                    Head(glyphs).at)>>
           \o shape_glyphs(Tail(glyphs),
                           cluster + len(reverse_engineer_glyph_text(Head(glyphs))))

RECURSIVE glyphs_len(_)
glyphs_len(glyphs) ==
    IF glyphs = <<>> THEN 0
    ELSE len(reverse_engineer_glyph_text(Head(glyphs))) + glyphs_len(Tail(glyphs))

(* `for run in runs` with `let mut cluster = slice_index`                  *)
(* (parser.rs:430-515)                                                     *)
RECURSIVE shape_runs(_, _, _)
shape_runs(font, runs, cluster) ==
    IF runs = <<>> THEN <<>>
    ELSE IF Head(runs).kind = "Unresolved"
    THEN <<Unresolved(Head(runs).raw, cluster, Head(runs).at)>>
           \o shape_runs(font, Tail(runs), cluster + len(Head(runs).raw))
    ELSE shape_glyphs(gsub_apply_default(font, Head(runs).glyphs), cluster)
           \o shape_runs(font, Tail(runs),
                         cluster + glyphs_len(gsub_apply_default(font, Head(runs).glyphs)))

(* shape_text(text, slice_index, ..); advance_ok tells whether             *)
(* hmtx.horizontal_advance answers for the glyphs (parser.rs:477-480).     *)
shape_text(font, text, slice_index, advance_ok) ==
    IF ~advance_ok /\ \E i \in 1..Len(collect_runs(font, text, 1, <<>>)) :
                         collect_runs(font, text, 1, <<>>)[i].glyphs # <<>>
    THEN Err("horizontal_advance")
    ELSE Ok(shape_runs(font, collect_runs(font, text, 1, <<>>), slice_index))

----------------------------------------------------------------------------
(* The active tab's Renderable, as TermWindow uses it *)

Lines == 0 .. (NumLines - 1)

(* The attributes of the cells of each viewport line (one cluster a line). *)
LineAttrs(l) ==
    [intensity |-> IF l % 2 = 1 THEN "Bold" ELSE "Normal",
     underline |-> "None", italic |-> (l % 3 = 2), blink |-> FALSE,
     reverse |-> FALSE, strikethrough |-> FALSE, invisible |-> FALSE]

TabBarAttrs == LineAttrs(0)

(* screen[l] tells whether what is drawn for line l was rendered with glyph *)
(* coordinates of the atlas in use ("current") or not ("stale"); resized   *)
(* is the size that the latest `tab.resize(size)` gave to every tab of the *)
(* window (history).                                                       *)
new_Renderable ==
    [dirty |-> Lines, screen |-> [l \in Lines |-> "stale"],
     cursor |-> [x |-> 0, y |-> 0, shape |-> "Default"],
     resized |-> None]

RECURSIVE SortedLines(_)
SortedLines(set) ==
    IF set = {} THEN <<>>
    ELSE LET m == CHOOSE x \in set : \A y \in set : x <= y
         IN <<m>> \o SortedLines(set \ {m})

get_dirty_lines(t) == SortedLines(t.dirty)

has_dirty_lines(t) == t.dirty # {}

make_all_lines_dirty(t) == [t EXCEPT !.dirty = Lines]

clean_dirty_lines(t) == [t EXCEPT !.dirty = {}]

----------------------------------------------------------------------------
(* RenderMetrics and RenderState, as TermWindow uses them *)

ATLAS_SIZE == 4096

U16(n) == n % 65536

(* RenderMetrics::new(fonts): the cell size of the default font. *)
RenderMetrics_of(r) ==
    [fc |-> r.fc,
     cell_size |-> [width |-> r.result.val.cell_width,
                    height |-> r.result.val.cell_height]]

RenderMetrics_new(fc, cfg, walk1, walk2) ==
    RenderMetrics_of(default_font_metrics(fc, cfg, walk1, walk2, TRUE))

(* RenderState::recreate_texture_atlas(fonts, metrics, size): a new atlas  *)
(* of the given size (None: of the current size) and an empty glyph cache, *)
(* so that nothing drawn before refers to the atlas in use; or an error,   *)
(* always so beyond what the graphics stack can allocate.                  *)
RenderState_recreate_texture_atlas(w, t, size, alloc_ok) ==
    LET wanted == IF IsSome(size) THEN Unwrap(size) ELSE w.atlas_size IN
    IF alloc_ok /\ wanted <= MaxTextureSize
    THEN [win |-> [w EXCEPT !.atlas_size = wanted],
          tab |-> [t EXCEPT !.screen = [l \in Lines |-> "stale"]],
          result |-> Ok("recreated")]
    ELSE [win |-> w, tab |-> t, result |-> Err("failed to allocate texture")]

----------------------------------------------------------------------------
(* TermWindow (termwindow.rs).  A handler is a function of the "world" it  *)
(* runs in, [fonts, win, tab, panic], to the world it leaves; once panic   *)
(* is set nothing further of the handler runs.                             *)

World(fc, w, t, p) == [fonts |-> fc, win |-> w, tab |-> t, panic |-> p]

Dimensions(pixel_width, pixel_height, dpi) ==
    [pixel_width |-> pixel_width, pixel_height |-> pixel_height, dpi |-> dpi]

PtySize(rows, cols, pixel_width, pixel_height) ==
    [rows |-> rows, cols |-> cols,
     pixel_width |-> pixel_width, pixel_height |-> pixel_height]

(* TermWindow::new_window (termwindow.rs:401-575); rm is the               *)
(* RenderMetrics of the FontConfiguration the window is given, gl_ok       *)
(* whether the OpenGL render state replaces the software one.              *)
new_window_with(cfg, rm, gl_ok) ==
    LET cell == rm.cell_size
        terminal_size ==
            PtySize(U16(NumLines), U16(PhysicalCols),
                    U16(cell.width * PhysicalCols), U16(cell.height * NumLines))
        rows_with_tab_bar ==
            (IF cfg.enable_tab_bar THEN 1 ELSE 0) + terminal_size.rows
        cols_with_scroll_bar == terminal_size.cols
        pad == cfg.window_padding
        dimensions ==
            Dimensions(cols_with_scroll_bar * U16(cell.width) + pad.left + pad.right,
                       rows_with_tab_bar * U16(cell.height) + pad.top + pad.bottom,
                       cfg.dpi)
    IN World(rm.fc,
             [dimensions |-> dimensions,
              terminal_size |-> terminal_size,
              cell_size |-> cell,
              show_tab_bar |-> cfg.enable_tab_bar,
              config_generation |-> cfg.generation,
              opengl |-> gl_ok,
              atlas_size |-> ATLAS_SIZE,
              inner_size |-> None,
              last_mouse_coords |-> <<0, -1>>,
              drag_start_coords |-> None],
             new_Renderable,
             None)

new_window(cfg, walk1, walk2, gl_ok) ==
    new_window_with(cfg, RenderMetrics_new(new_FontConfiguration(cfg), cfg,
                                           walk1, walk2), gl_ok)

(* TermWindow::current_cell_dimensions (termwindow.rs:1031-1036) *)
current_cell_dimensions(w) ==
    [rows |-> w.terminal_size.rows, cols |-> w.terminal_size.cols]

(* TermWindow::recreate_texture_atlas (termwindow.rs:689-692) *)
recreate_texture_atlas(w, t, size, alloc_ok) ==
    RenderState_recreate_texture_atlas(w, t, size, alloc_ok)

(* `self.render_metrics = RenderMetrics::new(&self.fonts)` *)
set_render_metrics(W, rm) ==
    [W EXCEPT !.fonts = rm.fc, !.win.cell_size = rm.cell_size]

(* `.expect(msg)` on the outcome r of recreate_texture_atlas *)
expect_recreated(W, r, msg) ==
    [W EXCEPT !.win = r.win, !.tab = r.tab,
              !.panic = IF r.result.ok THEN None ELSE Some(msg)]

recreate_or_panic(W, alloc_ok, msg) ==
    expect_recreated(W, recreate_texture_atlas(W.win, W.tab, None, alloc_ok), msg)

(* TermWindow::apply_scale_change (termwindow.rs:931-938): the atlas is    *)
(* recreated at its current size, and a failure to do so is a panic.       *)
apply_scale_change(W, cfg, dimensions, font_scale, walk1, walk2, alloc_ok) ==
    IF IsSome(W.panic) THEN W
    ELSE recreate_or_panic(
             set_render_metrics(W,
                 RenderMetrics_new(change_scaling(W.fonts, font_scale, dimensions.dpi),
                                   cfg, walk1, walk2)),
             alloc_ok, "failed to recreate atlas")

(* The PtySize of a scale change (termwindow.rs:960-965): the rows and     *)
(* cols the terminal had, at the new cell size.                            *)
scale_changed_size_transposed(cell_dims, cell) ==
    PtySize(U16(cell_dims.cols), U16(cell_dims.rows),
            U16(cell_dims.rows) * U16(cell.width),
            U16(cell_dims.cols) * U16(cell.height))

scale_changed_size(cell_dims, cell) ==
    PtySize(U16(cell_dims.rows), U16(cell_dims.cols),
            U16(cell_dims.cols) * U16(cell.width),
            U16(cell_dims.rows) * U16(cell.height))

(* usize arithmetic of apply_dimensions (termwindow.rs:983-991).  A usize  *)
(* is held as the mathematical value it would have without wrapping: a     *)
(* negative number d stands for the wrapped value 2^64 + d.                *)

(* 2^(16 * k) mod c *)
RECURSIVE pow16_rem(_, _)
pow16_rem(k, c) == IF k = 0 THEN 1 % c ELSE (pow16_rem(k - 1, c) * 65536) % c

(* `(a / c) as u16`: the low 16 bits of the quotient.  For a wrapped a the *)
(* quotient of 2^64 + a is taken by long division in base 2^16, of which   *)
(* only the last digit survives the cast.                                  *)
usize_div_u16(a, c, minus) ==
    IF a >= 0
    THEN U16(IF a \div c > minus THEN a \div c - minus ELSE 0)
    ELSE LET top == pow16_rem(3, c) * 65536
         IN U16(top \div c + (((top % c) + a) \div c) - minus)

(* `pixels - padding as usize` (termwindow.rs:983-986) *)
avail(pixels, padding) == pixels - padding

(* TermWindow::apply_dimensions (termwindow.rs:940-1029).  advise_ok is    *)
(* whether RenderState::advise_of_window_size_change succeeds,             *)
(* overflow_checks whether the build checks integer overflow (a debug      *)
(* build panics on `a - b` with a < b, a release build wraps).             *)
apply_dimensions(W, cfg, dimensions, scale_changed_cells, advise_ok, overflow_checks) ==
    IF IsSome(W.panic) THEN W
    ELSE
      LET w == [W.win EXCEPT !.dimensions = dimensions]
          cell == w.cell_size
          pad == cfg.window_padding
          tab_bar == IF w.show_tab_bar THEN 1 ELSE 0
          scaled == IsSome(scale_changed_cells)
          cell_dims == Unwrap(scale_changed_cells)
          scaled_size == scale_changed_size(cell_dims, cell)
          scaled_dims ==
              Dimensions(scaled_size.cols * U16(cell.width) + (pad.left + pad.right),
                         (scaled_size.rows + tab_bar) * U16(cell.height)
                             + (pad.top + pad.bottom),
                         dimensions.dpi)
          avail_width == avail(dimensions.pixel_width, pad.left + pad.right)
          avail_height == avail(dimensions.pixel_height, pad.top + pad.bottom)
          rows == usize_div_u16(avail_height, cell.height, tab_bar)
          cols == usize_div_u16(avail_width, cell.width, 0)
          resized_size ==
              PtySize(rows, cols, U16(avail_width), U16(avail_height))
          size == IF scaled THEN scaled_size ELSE resized_size
      IN
      IF ~scaled /\ overflow_checks /\ (avail_width < 0 \/ avail_height < 0)
      THEN [W EXCEPT !.win = w, !.panic = Some("attempt to subtract with overflow")]
      ELSE IF ~scaled /\ (cell.height = 0 \/ cell.width = 0)
      THEN [W EXCEPT !.win = w, !.panic = Some("attempt to divide by zero")]
      ELSE IF ~advise_ok
      THEN [W EXCEPT !.win = w, !.panic = Some("failed to advise of resize")]
      ELSE [W EXCEPT !.win = [w EXCEPT !.terminal_size = size,
                                       !.inner_size =
                                           IF scaled THEN Some(scaled_dims) ELSE @],
                     !.tab.resized = Some(size)]

(* TermWindow::scaling_changed (termwindow.rs:1039-1052) *)
scaling_changed(W, cfg, dimensions, font_scale, walk1, walk2, alloc_ok, advise_ok, overflow_checks) ==
    LET scale_changed == dimensions.dpi # W.win.dimensions.dpi
                         \/ font_scale # get_font_scale(W.fonts)
        cell_dims == current_cell_dimensions(W.win)
    IN
    IF scale_changed
    THEN apply_dimensions(apply_scale_change(W, cfg, dimensions, font_scale,
                                             walk1, walk2, alloc_ok),
                          cfg, dimensions, Some(cell_dims), advise_ok, overflow_checks)
    ELSE apply_dimensions(W, cfg, dimensions, None, advise_ok, overflow_checks)

(* TermWindow::config_was_reloaded (termwindow.rs:700-713) *)
config_was_reloaded(W, cfg, walk1, walk2, alloc_ok, advise_ok, overflow_checks) ==
    LET w1 == [W.win EXCEPT !.show_tab_bar = cfg.enable_tab_bar,
                            !.config_generation = cfg.generation]
    IN apply_dimensions(
           apply_scale_change([W EXCEPT !.win = w1], cfg, w1.dimensions,
                              get_font_scale(W.fonts), walk1, walk2, alloc_ok),
           cfg, w1.dimensions, Some(current_cell_dimensions(w1)), advise_ok, overflow_checks)

(* TermWindow::check_for_config_reload (termwindow.rs:694-698) *)
check_for_config_reload(W, cfg, walk1, walk2, alloc_ok, advise_ok, overflow_checks) ==
    IF W.win.config_generation # cfg.generation
    THEN config_was_reloaded(W, cfg, walk1, walk2, alloc_ok, advise_ok, overflow_checks)
    ELSE W

(* TermWindow::resize (termwindow.rs:265-277) *)
resize(W, cfg, dimensions, walk1, walk2, alloc_ok, advise_ok, overflow_checks) ==
    IF dimensions.pixel_width = 0 \/ dimensions.pixel_height = 0
    THEN W
    ELSE scaling_changed(W, cfg, dimensions, get_font_scale(W.fonts),
                         walk1, walk2, alloc_ok, advise_ok, overflow_checks)

(* The Mux's window with `len` tabs of which `active` is the active one. *)
MuxWindow(num_tabs, active) == [len |-> num_tabs, active |-> active]

(* TermWindow::activate_tab (termwindow.rs:783-797) on the Mux's window mw *)
activate_tab(mw, tab_idx) ==
    IF tab_idx < mw.len THEN [mw EXCEPT !.active = tab_idx] ELSE mw

(* `tab as usize % max` for an isize tab (termwindow.rs:812): the cast     *)
(* turns a negative tab into 2^64 + tab.                                   *)
isize_as_usize_rem(tab_idx, max) ==
    IF tab_idx >= 0 THEN tab_idx % max
    ELSE (pow16_rem(4, max) + tab_idx) % max

(* TermWindow::activate_tab_relative (termwindow.rs:799-813) *)
activate_tab_relative(mw, delta) ==
    LET max == mw.len
        active == mw.active
        tab_idx == active + delta
        wrapped == IF tab_idx < 0 THEN max + tab_idx ELSE tab_idx
    IN IF ~(max > 0)
       THEN [mux |-> mw, result |-> Err("no more tabs")]
       ELSE [mux |-> activate_tab(mw, isize_as_usize_rem(wrapped, max)),
             result |-> Ok("activated")]

(* TermWindow::spawn_tab (termwindow.rs:815-852): when the domain spawns   *)
(* the tab the window has one tab more, and the last one is activated.     *)
spawn_tab(mw, spawn_ok) ==
    IF spawn_ok
    THEN activate_tab([mw EXCEPT !.len = @ + 1], (mw.len + 1) - 1)
    ELSE mw

(* What tab_bar.hit_test(x) yields (termwindow.rs:180-188). *)
TabBarItem_Tab(tab_idx) == [item |-> "Tab", tab_idx |-> tab_idx]
TabBarItem_NewTabButton == [item |-> "NewTabButton", tab_idx |-> 0]
TabBarItem_None == [item |-> "None", tab_idx |-> 0]

MouseEvent(kind, x, y) == [kind |-> kind, coords |-> [x |-> x, y |-> y]]

(* `coords.sub(padding as isize).max(0) / cell` (termwindow.rs:160-171) *)
mouse_cell(coord, padding, cell) ==
    (IF coord - padding > 0 THEN coord - padding ELSE 0) \div cell

(* TermWindow::mouse_event (termwindow.rs:134-263): the window and the     *)
(* Mux's window afterwards, and the event passed to tab.mouse_event, if    *)
(* one is.  hit is what tab_bar.hit_test returns, spawn_ok whether a tab   *)
(* can be spawned.                                                         *)
mouse_event(w, mw, cfg, event, hit, spawn_ok) ==
    LET w1 == IF event.kind = "ReleaseLeft"
              THEN [w EXCEPT !.drag_start_coords = None] ELSE w
        x == mouse_cell(event.coords.x, cfg.window_padding.left, w.cell_size.width)
        y == mouse_cell(event.coords.y, cfg.window_padding.top, w.cell_size.height)
        first_line_offset == IF w.show_tab_bar THEN 1 ELSE 0
        w2 == [w1 EXCEPT !.last_mouse_coords = <<x, y>>]
    IN
    IF mw.len = 0
    THEN [win |-> w, mux |-> mw, forwarded |-> None]
    ELSE IF w.show_tab_bar /\ y = 0 /\ event.coords.y >= 0
    THEN IF event.kind = "PressLeft"
         THEN [win |-> [w2 EXCEPT !.drag_start_coords = Some(event.coords)],
               mux |-> CASE hit.item = "Tab" -> activate_tab(mw, hit.tab_idx)
                         [] hit.item = "NewTabButton" -> spawn_tab(mw, spawn_ok)
                         [] OTHER -> mw,
               forwarded |-> None]
         ELSE [win |-> w2, mux |-> mw, forwarded |-> None]
    ELSE [win |-> w2, mux |-> mw,
          forwarded |-> Some([x |-> x, y |-> y - first_line_offset])]

(* `get_font_scale() * 0.9` and `* 1.1` (termwindow.rs:1055, 1058) *)
scale_down(font_scale) == (font_scale * 9) \div 10
scale_up(font_scale) == (font_scale * 11) \div 10

----------------------------------------------------------------------------
(* TermWindow::paint and paint_opengl, step by step *)

(* What can become of rendering one line: all of it is drawn, or the      *)
(* first failing call ends it.                                             *)
RenderOutcomes == {"ok", "resolve_font", "shape", "OutOfTextureSpace"}

(* r is what resolve_font returned for the cluster's style. *)
render_cluster(r, outcome) ==
    [fc |-> r.fc,
     result |-> IF ~r.result.ok THEN Err("resolve_font")
                ELSE IF outcome = "shape" THEN Err("shape")
                ELSE IF outcome = "OutOfTextureSpace" THEN Err("OutOfTextureSpace")
                ELSE Ok("rendered")]

(* TermWindow::render_screen_line (termwindow.rs:1521-1796) and            *)
(* render_screen_line_opengl (termwindow.rs:1275-1518): match_style,       *)
(* resolve_font, shape and cached_glyph, each with `?`.                    *)
render_screen_line(fc, cfg, attrs, walk1, walk2, outcome) ==
    render_cluster(resolve_font(fc, cfg, match_style(cfg, attrs), walk1, walk2,
                                outcome # "resolve_font"),
                   outcome)

(* paint / paint_opengl on an Err from paint_tab (termwindow.rs:344-361,   *)
(* 377-394): only OutOfTextureSpace is recovered from.                     *)
on_paint_tab_error(err) ==
    IF err = "OutOfTextureSpace" THEN "recreate" ELSE "failed"

(* `if let Err(err) = self.recreate_texture_atlas(Some(size))`             *)
(* (termwindow.rs:347, 380): the fallback is for a failed recreation.      *)
fallback_always(result) == TRUE

fallback_needed(result) == ~result.ok

(* `tab.renderer().make_all_lines_dirty()` (termwindow.rs:356, 389) *)
recovery_marks_nothing(t) == t

recovery_mark_dirty(t) == make_all_lines_dirty(t)

----------------------------------------------------------------------------
(* Colours of a cluster and of a cell (termwindow.rs:1550-1585, 1319-1354, *)
(* 1799-1860)                                                              *)

(* term::color::ColorAttribute *)
ColorDefault == [kind |-> "Default", idx |-> 0, rgb |-> ""]
PaletteIndex(idx) == [kind |-> "PaletteIndex", idx |-> idx, rgb |-> ""]
TrueColor(rgb) == [kind |-> "TrueColor", idx |-> 0, rgb |-> rgb]

(* The tab's ColorPalette: entries 0..16 of the colour table and the named *)
(* colours, every one a different RgbColor.                                *)
Palette ==
    [colors |-> << "black", "maroon", "green", "olive", "navy", "purple", "teal",
                   "silver", "grey", "red", "lime", "yellow", "blue", "fuchsia",
                   "aqua", "white", "grey0" >>,
     foreground |-> "palette.foreground", background |-> "palette.background",
     cursor_fg |-> "palette.cursor_fg", cursor_bg |-> "palette.cursor_bg",
     selection_fg |-> "palette.selection_fg",
     selection_bg |-> "palette.selection_bg"]

(* ColorPalette::resolve_fg and resolve_bg; entry idx is colors[idx + 1]. *)
resolve_fg(palette, color) ==
    IF color.kind = "Default" THEN palette.foreground
    ELSE IF color.kind = "PaletteIndex" THEN palette.colors[color.idx + 1]
    ELSE color.rgb

resolve_bg(palette, color) ==
    IF color.kind = "Default" THEN palette.background
    ELSE IF color.kind = "PaletteIndex" THEN palette.colors[color.idx + 1]
    ELSE color.rgb

(* rgbcolor_to_window_color (termwindow.rs:1863-1865) *)
rgbcolor_to_window_color(color) == [rgb |-> color, alpha |-> 255]

(* The foreground of a cluster in render_screen_line                       *)
(* (termwindow.rs:1551-1571).                                              *)
cluster_fg_brightens_all(style, attrs, foreground, palette) ==
    IF foreground.kind = "PaletteIndex" /\ foreground.idx < 8
    THEN resolve_fg(palette, PaletteIndex(foreground.idx + 8))
    ELSE resolve_fg(palette, foreground)

cluster_fg(style, attrs, foreground, palette) ==
    IF foreground.kind = "Default"
    THEN (IF IsSome(style.foreground) THEN Unwrap(style.foreground)
          ELSE resolve_fg(palette, foreground))
    ELSE IF foreground.kind = "PaletteIndex" /\ foreground.idx < 8
    THEN resolve_fg(palette,
                    PaletteIndex(IF attrs.intensity = "Bold"
                                 THEN foreground.idx + 8 ELSE foreground.idx))
    ELSE resolve_fg(palette, foreground)

(* The same in render_screen_line_opengl (termwindow.rs:1320-1340). *)
cluster_fg_opengl(style, attrs, foreground, palette) ==
    IF foreground.kind = "Default"
    THEN (IF IsSome(style.foreground) THEN Unwrap(style.foreground)
          ELSE resolve_fg(palette, foreground))
    ELSE IF foreground.kind = "PaletteIndex" /\ foreground.idx < 8
    THEN resolve_fg(palette,
                    PaletteIndex(IF attrs.intensity = "Bold"
                                 THEN foreground.idx + 8 ELSE foreground.idx))
    ELSE resolve_fg(palette, foreground)

(* `if attrs.reverse() { std::mem::swap(&mut fg, &mut bg); }`               *)
(* (termwindow.rs:1573-1582, 1342-1351)                                    *)
reverse_swap_copies(reverse, fg, bg) ==
    IF reverse THEN [fg |-> bg, bg |-> bg] ELSE [fg |-> fg, bg |-> bg]

reverse_swap(reverse, fg, bg) ==
    IF reverse THEN [fg |-> bg, bg |-> fg] ELSE [fg |-> fg, bg |-> bg]

(* glyph_color and bg_color of a cluster (termwindow.rs:1584-1585,         *)
(* 1353-1354); pair is what the reverse step left.                         *)
window_colors(pair) ==
    [fg |-> rgbcolor_to_window_color(pair.fg),
     bg |-> rgbcolor_to_window_color(pair.bg)]

(* The colours of a cluster, by backend (termwindow.rs:1548-1585,          *)
(* 1317-1354).                                                             *)
cluster_colors(opengl, cfg, attrs, foreground, background, palette) ==
    window_colors(
        reverse_swap(attrs.reverse,
                     IF opengl
                     THEN cluster_fg_opengl(match_style(cfg, attrs), attrs,
                                            foreground, palette)
                     ELSE cluster_fg(match_style(cfg, attrs), attrs,
                                     foreground, palette),
                     resolve_bg(palette, background)))

(* termwiz CursorShape, and DefaultCursorStyle::effective_shape *)
CursorShapes ==
    {"Default", "BlinkingBlock", "SteadyBlock", "BlinkingUnderline",
     "SteadyUnderline", "BlinkingBar", "SteadyBar", "Hidden"}

effective_shape(default_cursor_style, shape) ==
    IF shape = "Default" THEN default_cursor_style ELSE shape

is_blinking(shape) ==
    shape \in {"BlinkingBlock", "BlinkingUnderline", "BlinkingBar"}

(* compute_cell_fg_bg, termwindow.rs:1811-1842: is the cursor on this cell *)
(* and visible; milli_uptime is now's distance from created_instant.       *)
cursor_always_visible(cfg, line_idx, cell_idx, cursor, milli_uptime) ==
    line_idx = cursor.y /\ cursor.x = cell_idx

cursor_visible_every_third(cfg, line_idx, cell_idx, cursor, milli_uptime) ==
    IF line_idx = cursor.y /\ cursor.x = cell_idx
    THEN LET shape == effective_shape(cfg.default_cursor_style, cursor.shape) IN
         IF shape = "Hidden" THEN FALSE
         ELSE IF is_blinking(shape)
         THEN (IF cfg.cursor_blink_rate = 0 THEN TRUE
               ELSE ((milli_uptime \div cfg.cursor_blink_rate) % 3) = 0)
         ELSE TRUE
    ELSE FALSE

cursor_visible(cfg, line_idx, cell_idx, cursor, milli_uptime) ==
    IF line_idx = cursor.y /\ cursor.x = cell_idx
    THEN LET shape == effective_shape(cfg.default_cursor_style, cursor.shape) IN
         IF shape = "Hidden" THEN FALSE
         ELSE IF is_blinking(shape)
         THEN (IF cfg.cursor_blink_rate = 0 THEN TRUE
               ELSE ((milli_uptime \div cfg.cursor_blink_rate) % 2) = 0)
         ELSE TRUE
    ELSE FALSE

(* The `match (selected, is_cursor)` of compute_cell_fg_bg                 *)
(* (termwindow.rs:1844-1857)                                               *)
overlay_selection_first(selected, is_cursor, fg_color, bg_color, palette) ==
    IF selected
    THEN [fg |-> rgbcolor_to_window_color(palette.selection_fg),
          bg |-> rgbcolor_to_window_color(palette.selection_bg)]
    ELSE IF is_cursor
    THEN [fg |-> rgbcolor_to_window_color(palette.cursor_fg),
          bg |-> rgbcolor_to_window_color(palette.cursor_bg)]
    ELSE [fg |-> fg_color, bg |-> bg_color]

overlay(selected, is_cursor, fg_color, bg_color, palette) ==
    IF ~selected /\ ~is_cursor THEN [fg |-> fg_color, bg |-> bg_color]
    ELSE IF is_cursor
    THEN [fg |-> rgbcolor_to_window_color(palette.cursor_fg),
          bg |-> rgbcolor_to_window_color(palette.cursor_bg)]
    ELSE [fg |-> rgbcolor_to_window_color(palette.selection_fg),
          bg |-> rgbcolor_to_window_color(palette.selection_bg)]

(* TermWindow::compute_cell_fg_bg (termwindow.rs:1799-1860); selection is  *)
(* the Range<usize> [start, end).                                          *)
compute_cell_fg_bg(cfg, line_idx, cell_idx, cursor, selection, fg_color, bg_color, palette, milli_uptime) ==
    overlay(selection.start <= cell_idx /\ cell_idx < selection.end,
            cursor_visible(cfg, line_idx, cell_idx, cursor, milli_uptime),
            fg_color, bg_color, palette)

(* The colours a cell of a cluster is drawn with: compute_cell_fg_bg on   *)
(* the cluster's glyph_color and bg_color (termwindow.rs:1626-1634,        *)
(* 1399-1407).                                                             *)
cell_colors_of(cfg, line_idx, cell_idx, cursor, selection, cluster, palette, milli_uptime) ==
    compute_cell_fg_bg(cfg, line_idx, cell_idx, cursor, selection,
                       cluster.fg, cluster.bg, palette, milli_uptime)

----------------------------------------------------------------------------
(* The per-line compositor: TermWindow::render_screen_line                 *)
(* (termwindow.rs:1521-1796) and render_screen_line_opengl                 *)
(* (termwindow.rs:1275-1518), cell by cell.                                *)
(*                                                                         *)
(* A line is the sequence of its CellClusters as line.cluster() gives      *)
(* them.  A cluster carries its attributes and what shaping its text       *)
(* returned: for every GlyphInfo the cell its cluster offset maps to       *)
(* (byte_to_cell_idx[info.cluster]), num_cells, and what the glyph cache   *)
(* answers for it (has it a texture, is it coloured).                      *)

Glyph(cell, num_cells, texture, has_color) ==
    [cell |-> cell, num_cells |-> num_cells, texture |-> texture,
     has_color |-> has_color]

Cluster(attrs, foreground, background, hyperlink, image, glyphs) ==
    [attrs |-> attrs, foreground |-> foreground, background |-> background,
     hyperlink |-> hyperlink, image |-> image, glyphs |-> glyphs]

(* A colour that is not used by what is drawn. *)
NoColor == [rgb |-> "", alpha |-> 0]

(* `match (&attrs.hyperlink, &current_highlight)` (termwindow.rs:1544-1547, *)
(* 1313-1316)                                                              *)
is_highlited_hyperlink(hyperlink, current_highlight) ==
    IF IsSome(hyperlink) /\ IsSome(current_highlight)
    THEN Unwrap(hyperlink) = Unwrap(current_highlight)
    ELSE FALSE

(* `let underline = match (is_highlited_hyperlink, attrs.underline())`      *)
(* (termwindow.rs:1607-1610)                                               *)
underline_single_when_highlighted(highlighted, attrs_underline) ==
    IF highlighted THEN "Single" ELSE attrs_underline

underline(highlighted, attrs_underline) ==
    IF highlighted /\ attrs_underline = "None" THEN "Single" ELSE attrs_underline

(* UtilSprites::select_sprite(is_highlited_hyperlink, strikethrough,       *)
(* underline) as called at termwindow.rs:1376-1383: the sprite that holds  *)
(* the underline and the strikethrough of the cell.                        *)
select_sprite(highlighted, strikethrough, attrs_underline) ==
    [underline |-> IF highlighted /\ attrs_underline = "None" THEN "Single"
                   ELSE attrs_underline,
     strikethrough |-> strikethrough]

(* The cells of one glyph: `for glyph_idx in 0..info.num_cells` with       *)
(* `if cell_idx >= num_cols { break; }` (termwindow.rs:1615-1623,          *)
(* 1388-1396).                                                             *)
glyph_cells_unbounded(cell_idx, num_cells, num_cols) ==
    [i \in 1..num_cells |-> cell_idx + (i - 1)]

glyph_cells(cell_idx, num_cells, num_cols) ==
    LET stop == IF \E g \in 0..(num_cells - 1) : cell_idx + g >= num_cols
                THEN CHOOSE g \in 0..(num_cells - 1) :
                        /\ cell_idx + g >= num_cols
                        /\ \A h \in 0..(g - 1) : cell_idx + h < num_cols
                ELSE num_cells
    IN [i \in 1..stop |-> cell_idx + (i - 1)]

(* What is drawn over the background of a glyph's cell                     *)
(* (termwindow.rs:1681-1740): the glyph's texture if it has one, else the  *)
(* image of the cluster's attributes if the cache has it, else nothing.    *)
cell_content(glyph, image, image_ok) ==
    IF glyph.texture THEN "glyph"
    ELSE IF IsSome(image) /\ image_ok THEN "image"
    ELSE "blank"

(* The same for a quad (termwindow.rs:1409-1453): the image of the         *)
(* cluster's attributes if the cache has it, else the glyph's texture,     *)
(* else white space.                                                       *)
cell_content_opengl(glyph, image, image_ok) ==
    IF IsSome(image) /\ image_ok THEN "image"
    ELSE IF glyph.texture THEN "glyph"
    ELSE "blank"

(* One cell of a glyph as render_screen_line draws it                      *)
(* (termwindow.rs:1626-1740); c is what compute_cell_fg_bg returned, from  *)
(* tells the cluster and the glyph the cell was drawn for (history).       *)
draw_cell(a, cfg, cluster, glyph, glyph_idx, cell_idx, c, from) ==
    [cell |-> cell_idx,
     x |-> cell_idx * a.cell_width + cfg.window_padding.left,
     y |-> a.cell_height * a.line_idx + cfg.window_padding.top,
     fg |-> c.fg, bg |-> c.bg,
     underline |-> underline(is_highlited_hyperlink(cluster.hyperlink,
                                                    a.current_highlight),
                             cluster.attrs.underline),
     strikethrough |-> cluster.attrs.strikethrough,
     content |-> cell_content(glyph, cluster.image, a.image_ok),
     has_color |-> IF glyph.texture THEN glyph.has_color
                   ELSE IsSome(cluster.image) /\ a.image_ok,
     glyph_idx |-> glyph_idx, from |-> from]

(* One cell of a glyph as render_screen_line_opengl writes its quad        *)
(* (termwindow.rs:1399-1479).                                              *)
quad_cell(a, cfg, cluster, glyph, glyph_idx, cell_idx, c, from) ==
    LET is_image == IsSome(cluster.image) /\ a.image_ok
        sprite == select_sprite(is_highlited_hyperlink(cluster.hyperlink,
                                                       a.current_highlight),
                                cluster.attrs.strikethrough,
                                cluster.attrs.underline)
    IN [cell |-> cell_idx,
        fg |-> c.fg, bg |-> c.bg,
        underline |-> IF is_image THEN "None" ELSE sprite.underline,
        strikethrough |-> IF is_image THEN FALSE ELSE sprite.strikethrough,
        content |-> cell_content_opengl(glyph, cluster.image, a.image_ok),
        has_color |-> IF is_image THEN TRUE ELSE glyph.has_color,
        glyph_idx |-> glyph_idx, from |-> from]

(* The cells of glyph g of cluster k, in the order they are drawn; colors  *)
(* is the glyph_color and bg_color of the cluster.                         *)
glyph_units(a, cfg, k, g, colors, cells) ==
    [i \in 1..Len(cells) |->
        IF a.opengl
        THEN quad_cell(a, cfg, a.line[k], a.line[k].glyphs[g], i - 1, cells[i],
                       cell_colors_of(cfg, a.line_idx, cells[i], a.cursor,
                                      a.selection, colors, a.palette,
                                      a.milli_uptime),
                       <<k, g>>)
        ELSE draw_cell(a, cfg, a.line[k], a.line[k].glyphs[g], i - 1, cells[i],
                       cell_colors_of(cfg, a.line_idx, cells[i], a.cursor,
                                      a.selection, colors, a.palette,
                                      a.milli_uptime),
                       <<k, g>>)]

(* The glyphs of the line from cluster k on, in the order of the two       *)
(* loops (termwindow.rs:1542, 1593; 1311, 1362).                           *)
RECURSIVE glyphs_from(_, _)
glyphs_from(line, k) ==
    IF k > Len(line) THEN <<>>
    ELSE [g \in 1..Len(line[k].glyphs) |-> <<k, g>>] \o glyphs_from(line, k + 1)

(* The glyphs that are drawn before the first `?` that fails               *)
(* (termwindow.rs:1589-1590, 1595; 1358-1359, 1364-1367): fail names the   *)
(* cluster and the glyph of the failing call, glyph 0 for resolve_font or  *)
(* shape.                                                                  *)
glyphs_drawn(line, fail) ==
    IF IsSome(fail)
    THEN SelectSeq(glyphs_from(line, 1),
                   LAMBDA p : \/ p[1] < Unwrap(fail)[1]
                              \/ p[1] = Unwrap(fail)[1] /\ p[2] < Unwrap(fail)[2])
    ELSE glyphs_from(line, 1)

RECURSIVE cluster_units(_, _, _)
cluster_units(a, cfg, todo) ==
    IF todo = <<>> THEN <<>>
    ELSE LET k == Head(todo)[1]
             g == Head(todo)[2]
         IN glyph_units(a, cfg, k, g,
                        cluster_colors(a.opengl, cfg, a.line[k].attrs,
                                       a.line[k].foreground,
                                       a.line[k].background, a.palette),
                        glyph_cells(a.line[k].glyphs[g].cell,
                                    a.line[k].glyphs[g].num_cells, a.num_cols))
              \o cluster_units(a, cfg, Tail(todo))

(* `let mut last_cell_idx = 0;` and `last_cell_idx = cell_idx;`            *)
(* (termwindow.rs:1541, 1624; 1309, 1397): the cell drawn last.            *)
last_cell_idx(units) ==
    IF units = <<>> THEN 0 ELSE units[Len(units)].cell

(* `for cell_idx in last_cell_idx + 1..num_cols` (termwindow.rs:1752-1774, *)
(* 1493-1515): the cells after the one drawn last are cleared.             *)
clear_cell(a, cfg, cell_idx, c) ==
    IF a.opengl
    THEN [cell |-> cell_idx, fg |-> c.fg, bg |-> c.bg,
          underline |-> "None", strikethrough |-> FALSE,
          content |-> "blank", has_color |-> FALSE,
          glyph_idx |-> 0, from |-> <<0, 0>>]
    ELSE [cell |-> cell_idx, x |-> cell_idx * a.cell_width,
          y |-> a.cell_height * a.line_idx,
          fg |-> NoColor, bg |-> c.bg,
          underline |-> "None", strikethrough |-> FALSE,
          content |-> "blank", has_color |-> FALSE,
          glyph_idx |-> 0, from |-> <<0, 0>>]

clear_remaining(a, cfg, last) ==
    [i \in 1..(a.num_cols - (last + 1)) |->
        clear_cell(a, cfg, last + i,
                   compute_cell_fg_bg(cfg, a.line_idx, last + i, a.cursor,
                                      a.selection,
                                      rgbcolor_to_window_color(a.palette.foreground),
                                      rgbcolor_to_window_color(a.palette.background),
                                      a.palette, a.milli_uptime))]

(* `Fill any marginal area to the right of the last cell`                  *)
(* (termwindow.rs:1776-1793), with saturating_sub.                         *)
NoMargin == [x |-> 0, y |-> 0, width |-> 0, bg |-> NoColor]

marginal_area(a, cfg, pixel_width_of_cells) ==
    [x |-> pixel_width_of_cells,
     y |-> a.cell_height * a.line_idx,
     width |-> IF a.pixel_width > pixel_width_of_cells
               THEN a.pixel_width - pixel_width_of_cells ELSE 0,
     bg |-> rgbcolor_to_window_color(a.palette.background)]

(* The whole of render_screen_line / render_screen_line_opengl for the     *)
(* call a; units is what the glyph loops have drawn.                       *)
screen_line_done(a, cfg, units) ==
    IF IsSome(a.fail)
    THEN [ok |-> FALSE, units |-> units, margin |-> NoMargin]
    ELSE [ok |-> TRUE,
          units |-> units \o clear_remaining(a, cfg, last_cell_idx(units)),
          margin |-> IF a.opengl THEN NoMargin
                     ELSE marginal_area(a, cfg,
                                        cfg.window_padding.left
                                          + a.num_cols * a.cell_width)]

(* `vb.slice_mut(start_pos..start_pos + per_line).ok_or_else(..)?`         *)
(* (termwindow.rs:1288-1303) comes first in render_screen_line_opengl.     *)
screen_line(a, cfg) ==
    IF a.opengl /\ ~a.vb_ok
    THEN [ok |-> FALSE, units |-> <<>>, margin |-> NoMargin]
    ELSE screen_line_done(a, cfg,
                          cluster_units(a, cfg, glyphs_drawn(a.line, a.fail)))

----------------------------------------------------------------------------
(* window/src/os/windows/window.rs: a Window, its Arc<Mutex<WindowInner>>  *)
(* and the window procedure.                                               *)
(*                                                                         *)
(* The record w holds the strong count of the Arc (0: the WindowInner has  *)
(* been freed), WindowInner.hwnd, the window's GWLP_USERDATA, and who owns *)
(* a reference: `inner` of new_window (local), a Window (handle), and the  *)
(* reference stashed in the raw pointer (raw).  released counts how often  *)
(* the stashed reference was released and destroyed the calls of the       *)
(* destroy callback (history).                                             *)

(* `Arc::new(Mutex::new(WindowInner { hwnd: null_mut(), callbacks }))`     *)
(* (window.rs:143-146)                                                     *)
new_WindowInner ==
    [strong |-> 1, local |-> TRUE, handle |-> FALSE, raw |-> FALSE,
     inner_hwnd |-> "null", userdata |-> "null", released |-> 0, destroyed |-> 0]

(* Arc::clone and the drop of an Arc *)
arc_clone(w) == [w EXCEPT !.strong = @ + 1]

arc_drop(w) == [w EXCEPT !.strong = IF @ > 0 THEN @ - 1 ELSE 0]

(* arc_to_pointer (window.rs:47-50): the raw pointer owns a new reference. *)
arc_to_pointer(w) == [arc_clone(w) EXCEPT !.raw = TRUE]

(* arc_from_pointer (window.rs:52-62): a reference for the caller; the     *)
(* pointer keeps its own.                                                  *)
arc_from_pointer(w) == arc_clone(w)

(* arc_from_hwnd (window.rs:64-71) *)
arc_from_hwnd(w) ==
    IF w.userdata = "null" THEN None ELSE Some(arc_from_pointer(w))

(* take_arc_from_pointer (window.rs:73-75): the caller takes the pointer's *)
(* reference over.                                                         *)
take_arc_from_pointer(w) == [w EXCEPT !.raw = FALSE, !.released = @ + 1]

(* What a message handler leaves: the state, what wnd_proc returns (0, or  *)
(* what DefWindowProcW returns) and the callbacks it has called.           *)
Handled(w, result, can_close_calls, destroy_calls) ==
    [w |-> w, result |-> result, can_close_calls |-> can_close_calls,
     destroy_calls |-> destroy_calls]

(* wm_nccreate (window.rs:174-181); `inner` is dropped when it returns.    *)
wm_nccreate(w) ==
    Handled(arc_drop([arc_from_pointer(w) EXCEPT !.userdata = "raw",
                                                 !.inner_hwnd = "hwnd"]),
            "DefWindowProcW", 0, 0)

(* wm_ncdestroy (window.rs:186-197); the reference taken from the pointer  *)
(* is dropped when it returns.                                             *)
wm_ncdestroy_keeps_userdata(w) ==
    IF w.userdata # "null"
    THEN Handled(arc_drop([take_arc_from_pointer(w) EXCEPT
                              !.destroyed = @ + 1, !.inner_hwnd = "null"]),
                 "DefWindowProcW", 0, 1)
    ELSE Handled(w, "DefWindowProcW", 0, 0)

wm_ncdestroy(w) ==
    IF w.userdata # "null"
    THEN Handled(arc_drop([take_arc_from_pointer(w) EXCEPT
                              !.destroyed = @ + 1, !.inner_hwnd = "null",
                              !.userdata = "null"]),
                 "DefWindowProcW", 0, 1)
    ELSE Handled(w, "DefWindowProcW", 0, 0)

(* The WM_CLOSE arm of do_wnd_proc (window.rs:231-239, 242); can_close is  *)
(* what the callback returns if it is called.                              *)
wm_close_never_prevented(w, can_close) ==
    IF IsSome(arc_from_hwnd(w))
    THEN Handled(arc_drop(Unwrap(arc_from_hwnd(w))), "DefWindowProcW", 1, 0)
    ELSE Handled(w, "DefWindowProcW", 0, 0)

wm_close(w, can_close) ==
    IF IsSome(arc_from_hwnd(w))
    THEN Handled(arc_drop(Unwrap(arc_from_hwnd(w))),
                 IF ~can_close THEN "0" ELSE "DefWindowProcW", 1, 0)
    ELSE Handled(w, "DefWindowProcW", 0, 0)

(* do_wnd_proc (window.rs:227-243) *)
do_wnd_proc(w, msg, can_close) ==
    IF msg = "WM_NCCREATE" THEN wm_nccreate(w)
    ELSE IF msg = "WM_NCDESTROY" THEN wm_ncdestroy(w)
    ELSE IF msg = "WM_CLOSE" THEN wm_close(w, can_close)
    ELSE Handled(w, "DefWindowProcW", 0, 0)

(* The window as the system and new_window see it.  pc: where new_window   *)
(* is; hwnd: what the system has made of the window; ub: what a use of the *)
(* freed WindowInner has led to; handled: the messages handled so far,     *)
(* each with the strong count before it and whether a WindowInner was      *)
(* attached to the window (history).                                       *)
NoOsWindow ==
    [pc |-> "none", w |-> None, hwnd |-> "absent", ub |-> "none", handled |-> <<>>]

----------------------------------------------------------------------------
(* The timer of new_window (termwindow.rs:471-526).  Times are in ms since *)
(* created_instant (termwindow.rs:465).                                    *)

(* `schedule_timer(std::time::Duration::from_millis(35), ..)` *)
TimerInterval == 35

(* What the closure owns when it is scheduled (termwindow.rs:471, 475);    *)
(* now is the time of its latest run, prev_blink_paint the value that      *)
(* last_blink_paint had before it was last set, marked whether the latest  *)
(* run made all lines dirty (history).                                     *)
new_timer(cfg) ==
    [last_config_generation |-> cfg.generation,
     apply_pending |-> FALSE,
     last_blink_paint |-> 0,
     now |-> 0, prev_blink_paint |-> 0, marked |-> FALSE]

(* The condition under which the closure calls make_all_lines_dirty        *)
(* (termwindow.rs:502-514).                                                *)
blink_due(tm, cfg, t, now) ==
    IF cfg.cursor_blink_rate # 0
    THEN IF is_blinking(effective_shape(cfg.default_cursor_style, t.cursor.shape))
         THEN now - tm.last_blink_paint > cfg.cursor_blink_rate
         ELSE FALSE
    ELSE FALSE

(* What the closure owns after a run at `now` (termwindow.rs:482-485,      *)
(* 510-511).                                                               *)
timer_closure(tm, cfg, now, due) ==
    [last_config_generation |-> cfg.generation,
     apply_pending |-> tm.apply_pending \/ cfg.generation # tm.last_config_generation,
     last_blink_paint |-> IF due THEN now ELSE tm.last_blink_paint,
     now |-> now,
     prev_blink_paint |-> IF due THEN tm.last_blink_paint ELSE tm.prev_blink_paint,
     marked |-> due]

----------------------------------------------------------------------------
(* Calls on a FontConfiguration: the configuration is reloaded behind its  *)
(* back, and its methods are called in any order.                          *)

ResolveStyles == {StyleRegular, StyleFancy, StyleItalic}

FontScales == {1000, 1100}
DpiScales == {96, 192}

NoRet ==
    [op |-> "none", style |-> None, attrs |-> None, gen |-> 0, result |-> None,
     cleared |-> FALSE, had_entry |-> FALSE, allocated |-> FALSE, searches |-> 0,
     warnings |-> <<>>, shapers |-> 0, args |-> None, before |-> None]

(* dirty is the set of lines that were dirty when the pass began and drawn  *)
(* the lines rendered in the pass so far, in order (history).              *)
IdlePaint ==
    [pc |-> "idle", passes |-> 0, todo |-> <<>>, rendered |-> {},
     size |-> None, err |-> None, line |-> None, dirty |-> {}, drawn |-> <<>>]

NoWindow ==
    /\ win = None /\ tab = None /\ timer = None
    /\ paint = IdlePaint /\ log = <<>> /\ panic = None
    /\ os = NoOsWindow
    /\ mux = MuxWindow(0, 0)

InitFont ==
    /\ \E i \in 1..Len(Configs) : config = ConfigValue(i, 0)
    /\ fonts = new_FontConfiguration(config)
    /\ ret = NoRet
    /\ allocs = 0
    /\ h_resolved = [s \in Styles |-> None]
    /\ NoWindow

(* The configuration is reloaded: new contents, next generation. *)
Reload(i) ==
    /\ config.generation < MaxGeneration
    /\ config' = ConfigValue(i, config.generation + 1)
    /\ h_resolved' = [s \in Styles |-> None]
    /\ UNCHANGED <<fonts, ret, allocs, windowVars>>

ResolveFontReturns(style, r) ==
       /\ r.allocated => allocs < MaxAllocs
       /\ allocs' = IF r.allocated THEN allocs + 1 ELSE allocs
       /\ fonts' = r.fc
       /\ ret' = [NoRet EXCEPT !.op = "resolve_font", !.style = Some(style),
                               !.gen = config.generation,
                               !.result = Some(r.result),
                               !.cleared = r.cleared, !.allocated = r.allocated,
                               !.had_entry = (style \in DOMAIN fonts.fonts),
                               !.searches = r.searches, !.warnings = r.warnings,
                               !.shapers = r.shapers,
                               !.before = Some(h_resolved[style])]
       /\ h_resolved' = IF r.result.ok
                        THEN [h_resolved EXCEPT ![style] = Some(r.result.val)]
                        ELSE h_resolved

ResolveFont(style, walk1, walk2, shaper_ok) ==
    /\ win = None
    /\ ResolveFontReturns(style,
           resolve_font(fonts, config, style, walk1, walk2, shaper_ok))
    /\ UNCHANGED <<config, windowVars>>

DefaultFontMetricsReturns(r) ==
       /\ r.allocated => allocs < MaxAllocs
       /\ allocs' = IF r.allocated THEN allocs + 1 ELSE allocs
       /\ fonts' = r.fc
       /\ ret' = [NoRet EXCEPT !.op = "default_font_metrics",
                               !.gen = config.generation,
                               !.result = Some(r.result)]
       /\ h_resolved' = IF IsSome(r.resolved)
                        THEN [h_resolved EXCEPT ![config.font] = r.resolved]
                        ELSE h_resolved

DefaultFontMetrics(walk1, walk2, shaper_ok) ==
    /\ win = None
    /\ DefaultFontMetricsReturns(
           default_font_metrics(fonts, config, walk1, walk2, shaper_ok))
    /\ UNCHANGED <<config, windowVars>>

ChangeScaling(font_scale, dpi_scale) ==
    /\ win = None
    /\ fonts' = change_scaling(fonts, font_scale, dpi_scale)
    /\ ret' = [NoRet EXCEPT !.op = "change_scaling",
                            !.gen = config.generation,
                            !.args = Some(<<font_scale, dpi_scale>>),
                            !.had_entry = (fonts.fonts # EmptyMap),
                            !.before = Some([config_generation |-> fonts.config_generation,
                                             font_scale |-> fonts.font_scale,
                                             dpi_scale |-> fonts.dpi_scale])]
    /\ h_resolved' = [s \in Styles |-> None]
    /\ UNCHANGED <<config, allocs, windowVars>>

MatchStyle(attrs) ==
    /\ win = None
    /\ ret' = [NoRet EXCEPT !.op = "match_style", !.attrs = Some(attrs),
                            !.gen = config.generation,
                            !.result = Some(match_style(config, attrs))]
    /\ UNCHANGED <<config, fonts, allocs, h_resolved, windowVars>>

NextFont ==
    \/ \E i \in 1..Len(Configs) : Reload(i)
    \/ \E style \in ResolveStyles, walk1 \in Walks, walk2 \in Walks,
          shaper_ok \in BOOLEAN : ResolveFont(style, walk1, walk2, shaper_ok)
    \/ \E walk1 \in Walks, walk2 \in Walks, shaper_ok \in BOOLEAN :
          DefaultFontMetrics(walk1, walk2, shaper_ok)
    \/ \E font_scale \in FontScales, dpi_scale \in DpiScales :
          ChangeScaling(font_scale, dpi_scale)

SpecFont == InitFont /\ [][NextFont]_vars

NextStyle == \E attrs \in CellAttrs : MatchStyle(attrs)

SpecStyle == InitFont /\ [][NextStyle]_vars

(* The font search, for every style: resolve_font on a FontConfiguration   *)
(* whose configuration is reloaded behind its back.                        *)
NextSearch ==
    \/ \E i \in 1..Len(Configs) : Reload(i)
    \/ \E style \in Styles, walk1 \in Walks, walk2 \in Walks,
          shaper_ok \in BOOLEAN : ResolveFont(style, walk1, walk2, shaper_ok)

SpecSearch == InitFont /\ [][NextSearch]_vars

(* Glyphs are rasterized with the LoadedFont that resolve_font hands out   *)
(* for a style: the Rc in the map and the caller's are one object.         *)
RasterStyles == {StyleRegular, StyleUnknown}

RasterizeGlyphReturns(style, fallback, r) ==
    /\ fonts' = [fonts EXCEPT !.fonts[style] = r.font]
    /\ h_resolved' = [h_resolved EXCEPT ![style] =
                         IF @ = Some(fonts.fonts[style]) THEN Some(r.font) ELSE @]
    /\ ret' = [NoRet EXCEPT !.op = "rasterize_glyph", !.style = Some(style),
                            !.gen = config.generation,
                            !.args = Some(fallback),
                            !.result = Some([result |-> r.result, used |-> r.used]),
                            !.before = Some(fonts.fonts[style])]

RasterizeGlyph(style, fallback, raster_ok, glyph_ok) ==
    /\ win = None
    /\ style \in DOMAIN fonts.fonts
    /\ RasterizeGlyphReturns(style, fallback,
           rasterize_glyph(fonts.fonts[style], fallback, raster_ok, glyph_ok))
    /\ UNCHANGED <<config, allocs, windowVars>>

NextRaster ==
    \/ \E i \in 1..Len(Configs) : Reload(i)
    \/ \E style \in RasterStyles, walk1 \in Walks, shaper_ok \in BOOLEAN :
          ResolveFont(style, walk1, walk1, shaper_ok)
    \/ \E style \in RasterStyles, fallback \in 0..MaxFallbackIdx,
          raster_ok \in BOOLEAN, glyph_ok \in BOOLEAN :
          RasterizeGlyph(style, fallback, raster_ok, glyph_ok)

SpecRaster == InitFont /\ [][NextRaster]_vars

(* The colours of clusters and cells, for the attributes, cursors,         *)
(* selections and times a line can be rendered with; each call reads the   *)
(* configuration anew and keeps nothing.                                   *)
ColorCellAttrs ==
    {a \in CellAttrs : a.underline = "None" /\ ~a.blink /\ ~a.strikethrough
                         /\ ~a.invisible}

Foregrounds ==
    {ColorDefault, PaletteIndex(0), PaletteIndex(3), PaletteIndex(7),
     PaletteIndex(8), TrueColor("orange")}

Backgrounds == {ColorDefault, PaletteIndex(2)}

CursorPositions ==
    [x : {1}, y : {0}, shape : {"Default", "BlinkingBar", "SteadyBar", "Hidden"}]

Selections == {[start |-> 0, end |-> 0], [start |-> 0, end |-> 1],
               [start |-> 1, end |-> 2]}

(* Milliseconds between created_instant and the paint. *)
Uptimes == {0, 100, 499, 500, 1200, 1700}

ClusterColors(opengl, attrs, foreground, background) ==
    /\ win = None
    /\ ret' = [NoRet EXCEPT !.op = "cluster_colors", !.attrs = Some(attrs),
                            !.gen = config.generation,
                            !.args = Some([opengl |-> opengl,
                                           foreground |-> foreground,
                                           background |-> background]),
                            !.result = Some(cluster_colors(opengl, config, attrs,
                                                           foreground, background,
                                                           Palette))]
    /\ UNCHANGED <<config, fonts, allocs, h_resolved, windowVars>>

ComputeCellFgBg(line_idx, cell_idx, cursor, selection, milli_uptime) ==
    /\ win = None
    /\ ret' = [NoRet EXCEPT
                 !.op = "compute_cell_fg_bg",
                 !.gen = config.generation,
                 !.args = Some([line_idx |-> line_idx, cell_idx |-> cell_idx,
                                cursor |-> cursor, selection |-> selection,
                                milli_uptime |-> milli_uptime]),
                 !.before = Some(config),
                 !.result =
                     Some(compute_cell_fg_bg(
                              config, line_idx, cell_idx, cursor, selection,
                              rgbcolor_to_window_color(Palette.foreground),
                              rgbcolor_to_window_color(Palette.background),
                              Palette, milli_uptime))]
    /\ UNCHANGED <<config, fonts, allocs, h_resolved, windowVars>>

(* One cell of a cluster, from its attributes to its final colours. *)
RenderCell(opengl, reverse, cell_idx, cursor, selection) ==
    /\ win = None
    /\ LET attrs == [LineAttrs(0) EXCEPT !.reverse = reverse] IN
       ret' = [NoRet EXCEPT
                 !.op = "cell_colors", !.attrs = Some(attrs),
                 !.gen = config.generation,
                 !.args = Some([opengl |-> opengl,
                                foreground |-> PaletteIndex(3),
                                background |-> ColorDefault,
                                line_idx |-> 0, cell_idx |-> cell_idx,
                                cursor |-> cursor, selection |-> selection,
                                milli_uptime |-> 0]),
                 !.before = Some(config),
                 !.result =
                     Some(cell_colors_of(
                              config, 0, cell_idx, cursor, selection,
                              cluster_colors(opengl, config, attrs, PaletteIndex(3),
                                             ColorDefault, Palette),
                              Palette, 0))]
    /\ UNCHANGED <<config, fonts, allocs, h_resolved, windowVars>>

NextCell ==
    \/ \E opengl \in BOOLEAN, reverse \in BOOLEAN, cell_idx \in 0..1,
          cursor \in {c \in CursorPositions : c.shape \in {"SteadyBar", "Hidden"}},
          selection \in Selections :
          RenderCell(opengl, reverse, cell_idx, cursor, selection)
    \/ \E opengl \in BOOLEAN, attrs \in ColorCellAttrs,
          foreground \in Foregrounds, background \in Backgrounds :
          ClusterColors(opengl, attrs, foreground, background)
    \/ \E line_idx \in 0..1, cell_idx \in 0..1, cursor \in CursorPositions,
          selection \in Selections, milli_uptime \in Uptimes :
          ComputeCellFgBg(line_idx, cell_idx, cursor, selection, milli_uptime)

SpecCell == InitFont /\ [][NextCell]_vars

(* Lines being rendered by either backend.  Each call reads the            *)
(* configuration anew and keeps nothing but what it has drawn.             *)

PlainCluster(glyphs) ==
    Cluster(LineAttrs(0), ColorDefault, ColorDefault, None, None, glyphs)

(* n glyphs of one cell each, from cell 0 on. *)
Singles(n) == [i \in 1..n |-> Glyph(i - 1, 1, TRUE, FALSE)]

(* Lines that differ in where their glyphs lie: no cluster at all, text    *)
(* shorter than the window, a wide glyph that ends at the last column, one *)
(* that is cut by it, glyphs of three cells, text wider than the window,   *)
(* and two clusters.                                                       *)
LayoutLines ==
    { <<>>,
      << PlainCluster(Singles(2)) >>,
      << PlainCluster(Singles(PhysicalCols - 2)
                        \o << Glyph(PhysicalCols - 2, 2, TRUE, FALSE) >>) >>,
      << PlainCluster(Singles(PhysicalCols - 1)
                        \o << Glyph(PhysicalCols - 1, 2, TRUE, FALSE) >>) >>,
      << PlainCluster(<< Glyph(0, 3, TRUE, TRUE),
                         Glyph(3, PhysicalCols, TRUE, TRUE) >>) >>,
      << PlainCluster(Singles(PhysicalCols)
                        \o << Glyph(PhysicalCols, 1, TRUE, FALSE),
                              Glyph(PhysicalCols + 1, 2, TRUE, FALSE) >>) >>,
      << Cluster(LineAttrs(1), PaletteIndex(3), ColorDefault, None, None,
                 Singles(2)),
         Cluster([LineAttrs(0) EXCEPT !.reverse = TRUE], ColorDefault,
                 PaletteIndex(2), None, None,
                 << Glyph(2, 1, TRUE, FALSE) >>) >> }

(* One-cluster lines that differ in underline, strikethrough and hyperlink. *)
HyperlinkLines ==
    { << Cluster([LineAttrs(0) EXCEPT !.underline = u, !.strikethrough = s],
                 ColorDefault, ColorDefault, h, None, Singles(1)) >> :
        u \in {"None", "Single", "Double"}, s \in BOOLEAN,
        h \in {None, Some("h1"), Some("h2")} }

(* One-cluster lines that differ in the image attribute and in what the    *)
(* glyph cache holds for the glyph.                                        *)
ImageLines ==
    { << Cluster([LineAttrs(0) EXCEPT !.underline = u],
                 ColorDefault, ColorDefault, None, image,
                 << Glyph(0, 1, texture, FALSE) >>) >> :
        u \in {"None", "Single"}, image \in {None, Some("image")},
        texture \in BOOLEAN }

TwoClusters ==
    << Cluster(LineAttrs(0), ColorDefault, ColorDefault, None, None, Singles(2)),
       Cluster(LineAttrs(1), ColorDefault, ColorDefault, None, None,
               << Glyph(2, 1, TRUE, FALSE) >>) >>

(* Lines whose shaped glyphs do not come in the order of their cells, as   *)
(* for right-to-left text: `cluster.byte_to_cell_idx[info.cluster]` falls  *)
(* from glyph to glyph, or falls once.                                     *)
ReorderedLines ==
    { << PlainCluster(<< Glyph(2, 1, TRUE, FALSE), Glyph(1, 1, TRUE, FALSE),
                         Glyph(0, 1, TRUE, FALSE) >>) >>,
      << PlainCluster(<< Glyph(0, 1, TRUE, FALSE), Glyph(2, 1, TRUE, FALSE),
                         Glyph(1, 1, TRUE, FALSE) >>) >> }

(* Milliseconds between created_instant and the call. *)
LineUptimes == {0, 500, 1200}

NoSelection == [start |-> 0, end |-> 0]

(* The arguments of a call and what the caches and the clock answer in it. *)
LineCall(opengl, line, selection, cursor, current_highlight, image_ok, vb_ok, fail, milli_uptime) ==
    [opengl |-> opengl, line_idx |-> 0, line |-> line, selection |-> selection,
     cursor |-> cursor, current_highlight |-> current_highlight,
     palette |-> Palette, num_cols |-> PhysicalCols, cell_width |-> 8,
     cell_height |-> 16,
     pixel_width |-> 8 * PhysicalCols + 6,
     image_ok |-> image_ok, vb_ok |-> vb_ok, fail |-> fail,
     milli_uptime |-> milli_uptime]

LineCalls ==
    { LineCall(opengl, line, selection, [x |-> x, y |-> 0, shape |-> "SteadyBar"],
               None, TRUE, TRUE, None, 0) :
        opengl \in BOOLEAN, line \in LayoutLines,
        selection \in {NoSelection, [start |-> 1, end |-> PhysicalCols + 1]},
        x \in {0, PhysicalCols - 1} }
    \cup
    { LineCall(opengl, line, NoSelection, [x |-> 1, y |-> 0, shape |-> "Hidden"],
               highlight, TRUE, TRUE, None, 0) :
        opengl \in BOOLEAN, line \in HyperlinkLines,
        highlight \in {None, Some("h1")} }
    \cup
    { LineCall(opengl, line, NoSelection, [x |-> 1, y |-> 0, shape |-> "Hidden"],
               None, image_ok, TRUE, None, 0) :
        opengl \in BOOLEAN, line \in ImageLines, image_ok \in BOOLEAN }
    \cup
    { LineCall(opengl, << PlainCluster(Singles(2)) >>, NoSelection,
               [x |-> 0, y |-> 0, shape |-> shape], None, TRUE, TRUE, None,
               milli_uptime) :
        opengl \in BOOLEAN,
        shape \in {"Default", "BlinkingBlock", "SteadyBlock", "Hidden"},
        milli_uptime \in LineUptimes }
    \cup
    { LineCall(opengl, TwoClusters, NoSelection,
               [x |-> 1, y |-> 0, shape |-> "Hidden"], None, TRUE, vb_ok,
               Some(fail), 0) :
        opengl \in BOOLEAN, vb_ok \in BOOLEAN,
        fail \in {<<1, 0>>, <<1, 2>>, <<2, 0>>, <<2, 1>>} }
    \cup
    { LineCall(TRUE, TwoClusters, NoSelection,
               [x |-> 1, y |-> 0, shape |-> "Hidden"], None, TRUE, FALSE,
               None, 0) }
    \cup
    { LineCall(opengl, line, NoSelection,
               [x |-> 1, y |-> 0, shape |-> "Hidden"], None, TRUE, TRUE, None, 0) :
        opengl \in BOOLEAN, line \in ReorderedLines }

(* render_screen_line or render_screen_line_opengl is called. *)
RenderScreenLine(a) ==
    /\ win = None
    /\ ret' = [NoRet EXCEPT !.op = "render_screen_line",
                            !.gen = config.generation,
                            !.args = Some(a),
                            !.result = Some(screen_line(a, config))]
    /\ UNCHANGED <<config, fonts, allocs, h_resolved, windowVars>>

(* The line just rendered is rendered again at another time, with nothing  *)
(* else changed; before keeps the time and the result of the first call.   *)
RenderAgain(milli_uptime) ==
    /\ win = None
    /\ ret.op = "render_screen_line"
    /\ ret.before = None
    /\ ret' = [ret EXCEPT
                 !.args = Some([Unwrap(ret.args) EXCEPT
                                   !.milli_uptime = milli_uptime]),
                 !.before = Some([milli_uptime |-> Unwrap(ret.args).milli_uptime,
                                  result |-> Unwrap(ret.result)]),
                 !.result = Some(screen_line(
                                     [Unwrap(ret.args) EXCEPT
                                         !.milli_uptime = milli_uptime],
                                     config))]
    /\ UNCHANGED <<config, fonts, allocs, h_resolved, windowVars>>

NextLine ==
    \/ \E a \in LineCalls : RenderScreenLine(a)
    \/ \E milli_uptime \in LineUptimes : RenderAgain(milli_uptime)

SpecLine == InitFont /\ [][NextLine]_vars

(* Texts being shaped by a ParsedFont. *)

MaxTextLen == 3

Alphabet == {LatinF, LatinI, VS16, Keycap, Grinning}

Texts == UNION {[1..n -> Alphabet] : n \in 0..MaxTextLen}

(* The fonts: what their cmap covers and the ligatures of their GSUB. *)
ParsedFonts ==
    { [cmap |-> {"f", "i"}, ligatures |-> {}],
      [cmap |-> {"f", "i"}, ligatures |-> {<<"f", "i">>}],
      [cmap |-> {"f", "i", "U+20E3"}, ligatures |-> {}] }

SliceIndexes == {0, 7}

(* A text is about to be shaped. *)
InitShape ==
    /\ config = ConfigValue(1, 0)
    /\ fonts = new_FontConfiguration(config)
    /\ \E font \in ParsedFonts, text \in Texts, slice_index \in SliceIndexes,
          advance_ok \in BOOLEAN :
          ret = [NoRet EXCEPT !.op = "text",
                              !.args = Some([font |-> font, text |-> text,
                                             slice_index |-> slice_index,
                                             advance_ok |-> advance_ok])]
    /\ allocs = 0
    /\ h_resolved = [s \in Styles |-> None]
    /\ NoWindow

ShapeText ==
    /\ ret.op = "text"
    /\ ret' = [ret EXCEPT !.op = "shape_text",
                          !.result = Some(shape_text(Unwrap(ret.args).font,
                                                     Unwrap(ret.args).text,
                                                     Unwrap(ret.args).slice_index,
                                                     Unwrap(ret.args).advance_ok))]
    /\ UNCHANGED <<config, fonts, allocs, h_resolved, windowVars>>

NextShape == ShapeText

SpecShape == InitShape /\ [][NextShape]_vars



----------------------------------------------------------------------------
(* match_font_info on what two walks of the same font directories have     *)
(* discovered: the same files, found in two orders.                        *)

FontSelections == {style.font : style \in Styles}

InitWalk ==
    /\ config = ConfigValue(1, 0)
    /\ fonts = new_FontConfiguration(config)
    /\ \E fonts_selection \in FontSelections, walk1 \in Discoveries, walk2 \in Discoveries :
          ret = [NoRet EXCEPT !.op = "walks",
                              !.args = Some([fonts_selection |-> fonts_selection,
                                             walk1 |-> walk1, walk2 |-> walk2])]
    /\ allocs = 0
    /\ h_resolved = [s \in Styles |-> None]
    /\ NoWindow

(* ParsedFont::load_fonts (parser.rs:77-102), once for each walk *)
LoadFonts ==
    /\ ret.op = "walks"
    /\ ret' = [ret EXCEPT
                 !.op = "load_fonts",
                 !.result = Some(<<load_fonts(Unwrap(ret.args).walk1,
                                              Unwrap(ret.args).fonts_selection, {}),
                                   load_fonts(Unwrap(ret.args).walk2,
                                              Unwrap(ret.args).fonts_selection, {})>>)]
    /\ UNCHANGED <<config, fonts, allocs, h_resolved, windowVars>>

NextWalk == LoadFonts

SpecWalk == InitWalk /\ [][NextWalk]_vars

----------------------------------------------------------------------------
(* The window: its handlers run one at a time on the GUI thread, a paint   *)
(* call step by step; the configuration is reloaded at any moment.         *)

Event(e, size, ok) == [e |-> e, size |-> size, ok |-> ok]

Walk0 == CHOOSE w \in Walks : TRUE

(* The builds whose outcomes differ for a window of these dimensions: the  *)
(* subtractions of apply_dimensions (termwindow.rs:983-986) are the only   *)
(* place where a build with overflow checks (TRUE) and one without part,   *)
(* and only when the padding exceeds the pixel size.                       *)
Builds(dimensions) ==
    IF \/ dimensions.pixel_width
             < config.window_padding.left + config.window_padding.right
       \/ dimensions.pixel_height
             < config.window_padding.top + config.window_padding.bottom
    THEN BOOLEAN ELSE {TRUE}

(* What a handler that may apply a scale change draws from outside:        *)
(* whether the atlas can be allocated, whether the render state takes the  *)
(* new size, and the build.  The font directories are walked in the order  *)
(* Walk0.                                                                  *)
HandlerInputs(needed, dimensions) ==
    IF needed
    THEN {Walk0} \X {Walk0} \X BOOLEAN \X BOOLEAN \X Builds(dimensions)
    ELSE {<<Walk0, Walk0, TRUE, TRUE, TRUE>>}

TheWorld == World(fonts, win, tab, panic)

Leaves(W) ==
    /\ fonts' = W.fonts
    /\ win' = W.win
    /\ tab' = W.tab
    /\ panic' = W.panic

Starts(W) ==
    /\ fonts = W.fonts
    /\ win = W.win
    /\ tab = W.tab
    /\ panic = W.panic

Idle == win # None /\ panic = None /\ paint.pc = "idle"

InitWindow ==
    /\ \E i \in 1..Len(Configs) : config = ConfigValue(i, 0)
    /\ \E gl_ok \in BOOLEAN : Starts(new_window(config, Walk0, Walk0, gl_ok))
    /\ timer = new_timer(config)
    /\ paint = IdlePaint
    /\ log = <<>>
    /\ os = NoOsWindow
    /\ mux = MuxWindow(1, 0)
    /\ ret = NoRet
    /\ allocs = 0
    /\ h_resolved = [s \in Styles |-> None]

(* The terminal model changes a line of the viewport. *)
TermOutput(l) ==
    /\ Idle
    /\ tab' = [tab EXCEPT !.dirty = @ \cup {l}]
    /\ UNCHANGED <<fontVars, win, timer, paint, log, panic, os, mux>>

(* Entry of paint / paint_opengl (termwindow.rs:329-342, 365-376), pass    *)
(* number `pass` of the call; W is the world check_for_config_reload left. *)
EnterPaint(pass, W, reloaded) ==
    /\ Leaves(W)
    /\ log' = log \o <<Event("paint", None, TRUE)>>
                  \o (IF reloaded
                      THEN <<Event("config_was_reloaded", None, W.panic = None)>>
                      ELSE <<>>)
    /\ paint' = IF IsSome(W.panic)
                THEN [IdlePaint EXCEPT !.pc = "panicked", !.passes = pass]
                ELSE [IdlePaint EXCEPT
                         !.pc = IF W.win.show_tab_bar THEN "tab_bar" ELSE "lines",
                         !.passes = pass,
                         !.todo = get_dirty_lines(W.tab),
                         !.dirty = W.tab.dirty]
    /\ UNCHANGED <<config, ret, allocs, h_resolved, timer, os, mux>>

PaintBegin ==
    /\ Idle
    /\ \E inp \in HandlerInputs(win.config_generation # config.generation,
                             win.dimensions) :
          EnterPaint(1,
                     check_for_config_reload(TheWorld, config,
                                             inp[1], inp[2], inp[3], inp[4], inp[5]),
                     win.config_generation # config.generation)

(* One render_screen_line call of paint_tab / paint_tab_opengl has         *)
(* returned r (termwindow.rs:1091-1109, 1198-1221); an Err leaves paint_tab *)
(* at once, and paint handles it.                                          *)
RenderReturns(r, is_tab_bar) ==
    /\ fonts' = r.fc
    /\ IF r.result.ok
       THEN /\ paint' = IF is_tab_bar THEN [paint EXCEPT !.pc = "lines"]
                        ELSE [paint EXCEPT !.todo = Tail(@),
                                           !.rendered = @ \cup {Head(paint.todo)},
                                           !.drawn = Append(@, Head(paint.todo))]
            /\ tab' = IF is_tab_bar THEN tab
                      ELSE [tab EXCEPT !.screen[Head(paint.todo)] = "current"]
            /\ log' = log
       ELSE IF on_paint_tab_error(r.result.err) = "recreate"
       THEN /\ paint' = [paint EXCEPT !.pc = "recreate",
                                      !.size = Some(win.atlas_size * 2)]
            /\ log' = Append(log, Event("OutOfTextureSpace",
                                        Some(win.atlas_size * 2), FALSE))
            /\ tab' = tab
       ELSE /\ paint' = [paint EXCEPT !.pc = "failed", !.err = Some(r.result.err),
                                      !.line = IF is_tab_bar THEN None
                                               ELSE Some(Head(paint.todo))]
            /\ log' = Append(log, Event("paint failed", None, FALSE))
            /\ tab' = tab
    /\ UNCHANGED <<config, ret, allocs, h_resolved, win, timer, panic, os, mux>>

RenderTabBar(outcome) ==
    /\ paint.pc = "tab_bar"
    /\ outcome = "OutOfTextureSpace" => paint.passes <= MaxRetries
    /\ RenderReturns(render_screen_line(fonts, config, TabBarAttrs,
                                        Walk0, Walk0, outcome), TRUE)

RenderLine(outcome) ==
    /\ paint.pc = "lines"
    /\ paint.todo # <<>>
    /\ outcome = "OutOfTextureSpace" => paint.passes <= MaxRetries
    /\ RenderReturns(render_screen_line(fonts, config, LineAttrs(Head(paint.todo)),
                                        Walk0, Walk0, outcome), FALSE)

FinishPaintTab_before_end(draw_ok) ==
    /\ paint.pc = "lines"
    /\ paint' = [paint EXCEPT !.pc = "done"]
    /\ log' = Append(log, Event("clean_dirty_lines", None, TRUE))
    /\ tab' = clean_dirty_lines(tab)
    /\ UNCHANGED <<fontVars, win, timer, panic, os, mux>>

(* The end of paint_tab (termwindow.rs:1111-1171) and of paint_tab_opengl  *)
(* (termwindow.rs:1223-1268), where the two frame.draw calls may fail      *)
(* before clean_dirty_lines is reached.                                    *)
FinishPaintTab(draw_ok) ==
    /\ paint.pc = "lines"
    /\ paint.todo = <<>>
    /\ IF win.opengl /\ ~draw_ok
       THEN /\ paint' = [paint EXCEPT !.pc = "failed", !.err = Some("draw")]
            /\ log' = Append(log, Event("paint failed", None, FALSE))
            /\ tab' = tab
       ELSE /\ paint' = [paint EXCEPT !.pc = "done"]
            /\ log' = Append(log, Event("clean_dirty_lines", None, TRUE))
            /\ tab' = clean_dirty_lines(tab)
    /\ UNCHANGED <<fontVars, win, timer, panic, os, mux>>

(* `self.recreate_texture_atlas(Some(size))` (termwindow.rs:347, 380) *)
RecreateReturns(r) ==
    /\ win' = r.win
    /\ tab' = r.tab
    /\ log' = Append(log, Event("recreate", paint.size, r.result.ok))
    /\ paint' = [paint EXCEPT !.pc = IF fallback_needed(r.result)
                                     THEN "recreate_fallback" ELSE "mark_dirty"]
    /\ UNCHANGED <<fontVars, timer, panic, os, mux>>

RecreateAtSize(alloc_ok) ==
    /\ paint.pc = "recreate"
    /\ RecreateReturns(recreate_texture_atlas(win, tab, paint.size, alloc_ok))

(* `self.recreate_texture_atlas(None).expect(..)` (termwindow.rs:353-354,  *)
(* 386-387)                                                                *)
FallbackReturns(r) ==
    /\ win' = r.win
    /\ tab' = r.tab
    /\ log' = Append(log, Event("recreate", None, r.result.ok))
                 \o (IF r.result.ok THEN <<>>
                     ELSE <<Event("panic", None, FALSE)>>)
    /\ panic' = IF r.result.ok THEN None
                ELSE Some("OutOfTextureSpace and failed to recreate atlas")
    /\ paint' = [paint EXCEPT !.pc = IF r.result.ok THEN "mark_dirty"
                                     ELSE "panicked"]
    /\ UNCHANGED <<fontVars, timer, os, mux>>

RecreateFallback(alloc_ok) ==
    /\ paint.pc = "recreate_fallback"
    /\ FallbackReturns(recreate_texture_atlas(win, tab, None, alloc_ok))

(* `tab.renderer().make_all_lines_dirty()` (termwindow.rs:356, 389) *)
MarkAllLinesDirty ==
    /\ paint.pc = "mark_dirty"
    /\ tab' = recovery_mark_dirty(tab)
    /\ log' = Append(log, Event("make_all_lines_dirty", None, TRUE))
    /\ paint' = [paint EXCEPT !.pc = "retry"]
    /\ UNCHANGED <<fontVars, win, timer, panic, os, mux>>

(* `return self.paint(ctx)` (termwindow.rs:358, 391) *)
Retry ==
    /\ paint.pc = "retry"
    /\ \E inp \in HandlerInputs(win.config_generation # config.generation,
                             win.dimensions) :
          EnterPaint(paint.passes + 1,
                     check_for_config_reload(TheWorld, config,
                                             inp[1], inp[2], inp[3], inp[4], inp[5]),
                     win.config_generation # config.generation)

(* paint / paint_opengl returns to the event loop. *)
PaintReturn ==
    /\ paint.pc \in {"done", "failed"}
    /\ paint' = IdlePaint
    /\ log' = <<>>
    /\ UNCHANGED <<fontVars, win, tab, timer, panic, os, mux>>

(* A handler other than paint has run to its end (or to a panic). *)
HandlerLeaves(W) ==
    /\ Leaves(W)
    /\ UNCHANGED <<config, ret, allocs, h_resolved, timer, paint, log, os, mux>>

(* The window sizes and dpi the window system reports. *)
ResizeDimensions ==
    {Dimensions(0, 0, 96), Dimensions(40, 48, 96), Dimensions(40, 48, 192),
     Dimensions(80, 96, 192)}

(* TermWindow::resize (termwindow.rs:265-277) *)
Resize(dimensions, inp) ==
    /\ Idle
    /\ HandlerLeaves(resize(TheWorld, config, dimensions,
                            inp[1], inp[2], inp[3], inp[4], inp[5]))

(* TermWindow::decrease_font_size (termwindow.rs:1054-1056) *)
DecreaseFontSize(inp) ==
    /\ Idle
    /\ scale_down(get_font_scale(fonts)) >= MinFontScale
    /\ HandlerLeaves(scaling_changed(TheWorld, config, win.dimensions,
                                     scale_down(get_font_scale(fonts)),
                                     inp[1], inp[2], inp[3], inp[4], inp[5]))

(* TermWindow::increase_font_size (termwindow.rs:1057-1059) *)
IncreaseFontSize(inp) ==
    /\ Idle
    /\ scale_up(get_font_scale(fonts)) <= MaxFontScale
    /\ HandlerLeaves(scaling_changed(TheWorld, config, win.dimensions,
                                     scale_up(get_font_scale(fonts)),
                                     inp[1], inp[2], inp[3], inp[4], inp[5]))

(* TermWindow::reset_font_size (termwindow.rs:1060-1062) *)
ResetFontSize(inp) ==
    /\ Idle
    /\ HandlerLeaves(scaling_changed(TheWorld, config, win.dimensions, 1000,
                                     inp[1], inp[2], inp[3], inp[4], inp[5]))

(* The 35ms timer closure (termwindow.rs:471-526), run at `now`: a reload  *)
(* it has not seen is handed to the window with window.apply, and a due    *)
(* cursor blink marks every line dirty.                                    *)
TimerTick(now) ==
    /\ Idle
    /\ timer' = timer_closure(timer, config, now, blink_due(timer, config, tab, now))
    /\ tab' = IF blink_due(timer, config, tab, now)
              THEN make_all_lines_dirty(tab) ELSE tab
    /\ UNCHANGED <<fontVars, win, paint, log, panic, os, mux>>

(* The closure given to window.apply runs (termwindow.rs:487-492). *)
RunApply(inp) ==
    /\ Idle
    /\ timer.apply_pending
    /\ timer' = [timer EXCEPT !.apply_pending = FALSE]
    /\ Leaves(config_was_reloaded(TheWorld, config, inp[1], inp[2], inp[3], inp[4], inp[5]))
    /\ UNCHANGED <<config, ret, allocs, h_resolved, paint, log, os, mux>>

PaintStep ==
    \/ PaintBegin
    \/ \E outcome \in RenderOutcomes : RenderTabBar(outcome)
    \/ \E outcome \in RenderOutcomes : RenderLine(outcome)
    \/ \E draw_ok \in BOOLEAN : FinishPaintTab(draw_ok)
    \/ \E alloc_ok \in BOOLEAN : RecreateAtSize(alloc_ok)
    \/ \E alloc_ok \in BOOLEAN : RecreateFallback(alloc_ok)
    \/ MarkAllLinesDirty
    \/ Retry
    \/ PaintReturn

NextPaint ==
    \/ PaintStep
    \/ \E l \in Lines : TermOutput(l)
    \/ \E i \in 1..Len(Configs) : Reload(i)

SpecPaint == InitWindow /\ [][NextPaint]_vars

NextWindow ==
    \/ \E i \in 1..Len(Configs) : Reload(i)
    \/ \E dimensions \in ResizeDimensions :
          \E inp \in HandlerInputs(TRUE, dimensions) : Resize(dimensions, inp)
    \/ \E inp \in HandlerInputs(TRUE, win.dimensions) : DecreaseFontSize(inp)
    \/ \E inp \in HandlerInputs(TRUE, win.dimensions) : IncreaseFontSize(inp)
    \/ \E inp \in HandlerInputs(TRUE, win.dimensions) : ResetFontSize(inp)
    \/ TimerTick(timer.now)
    \/ \E inp \in HandlerInputs(TRUE, win.dimensions) : RunApply(inp)

SpecWindow == InitWindow /\ [][NextWindow]_vars

(* The timer against the clock: the closure runs every TimerInterval ms    *)
(* from the creation of the window on.                                     *)
NextBlink ==
    \/ \E i \in 1..Len(Configs) : Reload(i)
    \/ /\ timer.now < MaxTicks * TimerInterval
       /\ TimerTick(timer.now + TimerInterval)

SpecBlink == InitWindow /\ [][NextBlink]_vars

(* The window with both observers of a reload: paint, which calls          *)
(* check_for_config_reload on entry, and the timer closure, which compares *)
(* the generation with its own last_config_generation.                     *)
NextReload ==
    \/ PaintStep
    \/ \E l \in Lines : TermOutput(l)
    \/ \E i \in 1..Len(Configs) : Reload(i)
    \/ TimerTick(timer.now)
    \/ \E inp \in HandlerInputs(TRUE, win.dimensions) : RunApply(inp)

SpecReload == InitWindow /\ [][NextReload]_vars

(* The dpi a window can report to apply_scale_change (termwindow.rs:931-   *)
(* 938), which hands dimensions.dpi / 96 to change_scaling; fonts are      *)
(* loaded afterwards.                                                      *)
WindowDpis == {48, 72, 96, 120, 144, 192}

NextDpi ==
    \/ \E i \in 1..Len(Configs) : Reload(i)
    \/ \E dpi \in WindowDpis : ChangeScaling(1000, dpi)
    \/ \E style \in ResolveStyles : ResolveFont(style, Walk0, Walk0, TRUE)

SpecDpi == InitFont /\ [][NextDpi]_vars

(* Resizes down to windows smaller than the padding.  ret keeps the call:  *)
(* its dimensions, and the window it found.                                *)
SmallDimensions ==
    {Dimensions(0, 48, 96), Dimensions(40, 0, 96), Dimensions(3, 48, 96),
     Dimensions(40, 3, 96), Dimensions(4, 4, 96), Dimensions(40, 48, 96),
     Dimensions(40, 48, 192)}

ResizeReturns(dimensions, inp) ==
    /\ Idle
    /\ Leaves(resize(TheWorld, config, dimensions,
                     inp[1], inp[2], inp[3], inp[4], inp[5]))
    /\ ret' = [NoRet EXCEPT !.op = "resize", !.gen = config.generation,
                            !.args = Some(dimensions),
                            !.before = Some(TheWorld)]
    /\ UNCHANGED <<config, allocs, h_resolved, timer, paint, log, os, mux>>

NextResize ==
    \/ \E i \in 1..Len(Configs) : Reload(i)
    \/ \E dimensions \in SmallDimensions :
          \E inp \in HandlerInputs(TRUE, dimensions) :
              ResizeReturns(dimensions, inp)

SpecResize == InitWindow /\ [][NextResize]_vars

(* The tabs of the window: activate_tab and activate_tab_relative as the   *)
(* key assignments call them (termwindow.rs:890-898), on a window of any   *)
(* number of tabs up to MaxTabs.                                           *)
MaxTabs == 3
MaxDelta == 8

MuxWindows ==
    {MuxWindow(0, 0)}
        \cup UNION {{MuxWindow(n, a) : a \in 0..(n - 1)} : n \in 1..MaxTabs}

InitTabs ==
    /\ \E i \in 1..Len(Configs) : config = ConfigValue(i, 0)
    /\ \E gl_ok \in BOOLEAN : Starts(new_window(config, Walk0, Walk0, gl_ok))
    /\ timer = new_timer(config)
    /\ paint = IdlePaint
    /\ log = <<>>
    /\ os = NoOsWindow
    /\ mux \in MuxWindows
    /\ ret = NoRet
    /\ allocs = 0
    /\ h_resolved = [s \in Styles |-> None]

TabsLeave(op, args, mw, result) ==
    /\ mux' = mw
    /\ ret' = [NoRet EXCEPT !.op = op, !.gen = config.generation,
                            !.args = Some(args), !.before = Some(mux),
                            !.result = Some(result)]

ActivateTab(tab_idx) ==
    /\ Idle
    /\ TabsLeave("activate_tab", tab_idx, activate_tab(mux, tab_idx), Ok("activated"))
    /\ UNCHANGED <<config, fonts, allocs, h_resolved, win, tab, timer, paint, log, panic, os>>

ActivateTabRelative(delta) ==
    /\ Idle
    /\ TabsLeave("activate_tab_relative", delta,
                 activate_tab_relative(mux, delta).mux,
                 activate_tab_relative(mux, delta).result)
    /\ UNCHANGED <<config, fonts, allocs, h_resolved, win, tab, timer, paint, log, panic, os>>

NextTabs ==
    \/ \E tab_idx \in 0..MaxTabs : ActivateTab(tab_idx)
    \/ \E delta \in (0 - MaxDelta)..MaxDelta : ActivateTabRelative(delta)

SpecTabs == InitTabs /\ [][NextTabs]_vars

(* Mouse events at pixels inside and outside the window and its padding.   *)
MouseKinds == {"PressLeft", "ReleaseLeft", "Move"}
MouseXs == {-3, 1, 9}
MouseYs == {-20, 0, 3, 40}

TabBarItems ==
    {TabBarItem_Tab(i) : i \in 0..(MaxTabs - 1)}
        \cup {TabBarItem_NewTabButton, TabBarItem_None}

(* What a mouse event of this kind draws from outside: the item of the tab *)
(* bar under the pointer and whether a tab can be spawned, which only a    *)
(* press of the left button on a window with a tab bar asks for.           *)
TabBarInputs(kind) ==
    IF win.show_tab_bar /\ kind = "PressLeft"
    THEN TabBarItems \X BOOLEAN
    ELSE {<<TabBarItem_None, FALSE>>}

MouseEventReturns(event, r) ==
    /\ win' = r.win
    /\ TabsLeave("mouse_event", event, r.mux, r.forwarded)
    /\ UNCHANGED <<config, fonts, allocs, h_resolved, tab, timer, paint, log, panic, os>>

MouseEventArrives(event, hit, spawn_ok) ==
    /\ Idle
    /\ mux.len < MaxTabs \/ ~spawn_ok
    /\ MouseEventReturns(event, mouse_event(win, mux, config, event, hit, spawn_ok))

NextMouse ==
    \/ \E i \in 1..Len(Configs) : Reload(i)
    \/ \E kind \in MouseKinds, x \in MouseXs, y \in MouseYs :
          \E inp \in TabBarInputs(kind) :
              MouseEventArrives(MouseEvent(kind, x, y), inp[1], inp[2])

SpecMouse == InitTabs /\ [][NextMouse]_vars

----------------------------------------------------------------------------
(* Properties *)

AtlasFatal == "OutOfTextureSpace and failed to recreate atlas"

(* What follows an OutOfTextureSpace{size} in the log of a paint call. *)
AfterOverflow(size, rest) ==
    IF rest = <<>> THEN paint.pc = "recreate"
    ELSE
      /\ rest[1].e = "recreate" /\ rest[1].size = size
      /\ IF rest[1].ok
         THEN IF Len(rest) = 1 THEN paint.pc = "mark_dirty"
              ELSE rest[2].e = "make_all_lines_dirty"
         ELSE IF Len(rest) = 1 THEN paint.pc = "recreate_fallback"
         ELSE /\ rest[2].e = "recreate" /\ rest[2].size = None
              /\ IF rest[2].ok
                 THEN IF Len(rest) = 2 THEN paint.pc = "mark_dirty"
                      ELSE rest[3].e = "make_all_lines_dirty"
                 ELSE /\ Len(rest) = 3
                      /\ rest[3].e = "panic"
                      /\ paint.pc = "panicked"
                      /\ panic = Some(AtlasFatal)

(* C1: an OutOfTextureSpace{size} from painting the tab is followed by     *)
(* exactly one recreation at the signalled size; the fallback recreation   *)
(* at the current size is attempted once and only after that one failed;   *)
(* if the fallback fails too the process panics and no retry is started.   *)
C1_RecoveryAttempts ==
    /\ \A i \in 1..Len(log) :
          log[i].e = "OutOfTextureSpace" =>
              AfterOverflow(log[i].size, SubSeq(log, i + 1, Len(log)))
    /\ \A i \in 1..Len(log) :
          log[i].e = "recreate" =>
              /\ i > 1
              /\ \/ log[i - 1].e = "OutOfTextureSpace" /\ log[i].size = log[i - 1].size
                 \/ /\ log[i - 1].e = "recreate" /\ ~log[i - 1].ok
                    /\ IsSome(log[i - 1].size) /\ log[i].size = None

(* The overflow, the failed recreation at the signalled size, the failed   *)
(* fallback and the panic.                                                 *)
C1_Witness ==
    /\ panic = Some(AtlasFatal)
    /\ Len(log) >= 4
    /\ log[Len(log) - 3].e = "OutOfTextureSpace"
    /\ log[Len(log) - 2] = Event("recreate", log[Len(log) - 3].size, FALSE)
    /\ log[Len(log) - 1] = Event("recreate", None, FALSE)

(* C2: one externally invoked paint call retries at most once and makes    *)
(* at most two atlas recreation attempts.                                  *)
C2_AtMostOneRetry ==
    /\ paint.passes <= 2
    /\ Cardinality({i \in 1..Len(log) : log[i].e = "recreate"}) <= 2

(* C3: in the recovery path the atlas is recreated, then every line is     *)
(* marked dirty, then the paint is retried; the retried pass renders every *)
(* line, so that nothing drawn comes from before the recreation.           *)
C3_RecoveryOrder ==
    /\ \A i \in 2..Len(log) :
          log[i].e = "paint" =>
              /\ i >= 3
              /\ log[i - 1].e = "make_all_lines_dirty"
              /\ log[i - 2].e = "recreate" /\ log[i - 2].ok
    /\ \A i \in 1..Len(log) :
          log[i].e = "make_all_lines_dirty" =>
              i > 1 /\ log[i - 1].e = "recreate" /\ log[i - 1].ok
    /\ (paint.passes > 1 /\ paint.pc \in {"tab_bar", "lines"}) =>
          /\ {paint.todo[k] : k \in 1..Len(paint.todo)} \cup paint.rendered = Lines
          /\ \A l \in paint.rendered : tab.screen[l] = "current"
    /\ (paint.passes > 1 /\ paint.pc = "done") =>
          \A l \in Lines : tab.screen[l] = "current"

(* A retried pass has run to its end. *)
C3_Witness ==
    /\ paint.passes = 2
    /\ paint.pc = "done"
    /\ \E i \in 1..Len(log) : log[i].e = "recreate" /\ log[i].ok
    /\ \A l \in Lines : tab.screen[l] = "current"

(* C4: a shaping failure on one dirty line leaves the other dirty lines of *)
(* the pass rendered.                                                      *)
C4_ShapeFailureSkipsOnlyThatLine ==
    (paint.pc = "failed" /\ paint.err = Some("shape") /\ IsSome(paint.line)) =>
        (tab.dirty \ {Unwrap(paint.line)}) \subseteq paint.rendered

(* C5: the only panic is the one of the atlas overflow whose two           *)
(* recreations failed during a paint.                                      *)
C5_OnlyAtlasDoubleFailurePanics ==
    IsSome(panic) => panic = Some(AtlasFatal)

RuleMatches(rule, attrs) ==
    \A p \in Predicates : rule.preds[p] = None \/ rule.preds[p] = Some(attrs[p])

MatchingRules(cfg, attrs) ==
    {i \in 1..Len(cfg.font_rules) : RuleMatches(cfg.font_rules[i], attrs)}

(* C6: match_style returns the style of the first rule all of whose        *)
(* specified predicates equal the cell's attributes (an unspecified one is *)
(* a wildcard), and the default style when no rule matches.                *)
C6_FirstMatchWins ==
    ret.op = "match_style" =>
        LET M == MatchingRules(config, Unwrap(ret.attrs)) IN
        Unwrap(ret.result) =
            IF M = {} THEN config.font
            ELSE config.font_rules[CHOOSE i \in M : \A j \in M : i <= j].font

(* Two rules match and the earlier one's style, which is not the later     *)
(* one's, is returned.                                                     *)
C6_Witness ==
    /\ ret.op = "match_style"
    /\ \E i, j \in MatchingRules(config, Unwrap(ret.attrs)) :
          /\ i < j
          /\ \A k \in MatchingRules(config, Unwrap(ret.attrs)) : i <= k
          /\ config.font_rules[i].font # config.font_rules[j].font
          /\ Unwrap(ret.result) = config.font_rules[i].font

(* C7: a second resolve_font of a style, with no reload or scale change    *)
(* since the first, returns the same instance without a font search, a     *)
(* warning or a shaper.                                                    *)
C7_Memoized ==
    (ret.op = "resolve_font" /\ IsSome(Unwrap(ret.before))) =>
        /\ ret.result = Some(Ok(Unwrap(Unwrap(ret.before))))
        /\ ~ret.allocated
        /\ ret.searches = 0
        /\ ret.warnings = <<>>
        /\ ret.shapers = 0

(* The second call for a style whose first resolution had to warn. *)
C7_Witness ==
    /\ ret.op = "resolve_font"
    /\ ret.style = Some(StyleItalic)
    /\ IsSome(Unwrap(ret.before))
    /\ ret.result = Some(Ok(Unwrap(Unwrap(ret.before))))

(* C8: resolve_font called under a generation other than the recorded one  *)
(* clears fonts and metrics and records the generation before the lookup;  *)
(* it never returns a font inserted under another generation.              *)
C8_NoStaleFont ==
    ret.op = "resolve_font" =>
        /\ fonts.config_generation = ret.gen
        /\ Unwrap(ret.result).ok => Unwrap(ret.result).val.gen = ret.gen
        /\ \A s \in DOMAIN fonts.fonts : fonts.fonts[s].gen = ret.gen
        /\ IsSome(fonts.metrics) => Unwrap(fonts.metrics).gen = ret.gen

(* A style cached before the reload is resolved again after it. *)
C8_Witness ==
    /\ ret.op = "resolve_font"
    /\ ret.cleared
    /\ ret.had_entry
    /\ ret.allocated
    /\ Unwrap(ret.result).ok

(* C9: default_font_metrics returns metrics computed under the current     *)
(* configuration generation.                                               *)
C9_MetricsOfCurrentGeneration ==
    (ret.op = "default_font_metrics" /\ Unwrap(ret.result).ok) =>
        Unwrap(ret.result).val.gen = ret.gen

(* C10: change_scaling always empties the fonts map and the metrics,       *)
(* records the two scales and leaves the generation alone; a font built    *)
(* afterwards has the size and dpi the recorded scales give.               *)
C10_ChangeScaling ==
    /\ ret.op = "change_scaling" =>
          /\ fonts.fonts = EmptyMap
          /\ fonts.metrics = None
          /\ <<fonts.font_scale, fonts.dpi_scale>> = Unwrap(ret.args)
          /\ fonts.config_generation = Unwrap(ret.before).config_generation
    /\ (ret.op = "resolve_font" /\ ret.allocated /\ config.generation = ret.gen) =>
          /\ Unwrap(ret.result).val.font_size =
                 effective_font_size(fonts.font_scale, config.font_size)
          /\ Unwrap(ret.result).val.dpi = effective_dpi(fonts.dpi_scale, config.dpi)

(* change_scaling to the scales already in force, on a filled cache. *)
C10_Witness ==
    /\ ret.op = "change_scaling"
    /\ ret.had_entry
    /\ Unwrap(ret.args) = <<Unwrap(ret.before).font_scale, Unwrap(ret.before).dpi_scale>>
    /\ fonts.fonts = EmptyMap

----------------------------------------------------------------------------
(* The font search of resolve_font *)

(* resolve_font has just returned a LoadedFont it built from a search. *)
SearchedFont ==
    /\ ret.op = "resolve_font" /\ ret.searches = 1
    /\ IsSome(ret.result) /\ Unwrap(ret.result).ok

ReturnedFont == Unwrap(ret.result).val

(* The stage that yields a handle: 1 font directories, 2 platform locator, *)
(* 3 built-in fonts.                                                       *)
HandleStage(h) ==
    IF h \in {f.handle : f \in DirFonts} THEN 1
    ELSE IF h \in {BuiltInFonts[i].handle : i \in 1..Len(BuiltInFonts)} THEN 3
    ELSE 2

AttrIndex(style, attr) ==
    CHOOSE i \in 1..Len(style.font) : style.font[i] = attr

Unsatisfied(style, f) ==
    {k \in 1..Len(style.font) :
        \A i \in 1..Len(f.origins) : f.origins[i] # style.font[k]}

(* C11: each requested FontAttributes contributes at most one handle to the *)
(* handle list of the LoadedFont that a search builds.                     *)
C11_OneHandlePerAttribute ==
    SearchedFont =>
        \A i, j \in 1..Len(ReturnedFont.origins) :
            i # j => ReturnedFont.origins[i] # ReturnedFont.origins[j]

(* C12: the handle list is ordered by search stage: handles of preferred   *)
(* attributes before handles of fallback attributes; within each group     *)
(* font directories, then locator, then built-in fonts; within one stage   *)
(* in the order of the requested attributes.                               *)
C12_HandlesOrderedByStage ==
    SearchedFont =>
        LET f == ReturnedFont
            style == Unwrap(ret.style)
        IN \A i, j \in 1..Len(f.handles) :
             i < j =>
               /\ f.origins[i].is_fallback => f.origins[j].is_fallback
               /\ f.origins[i].is_fallback = f.origins[j].is_fallback =>
                     /\ HandleStage(f.handles[i]) <= HandleStage(f.handles[j])
                     /\ HandleStage(f.handles[i]) = HandleStage(f.handles[j]) =>
                           AttrIndex(style, f.origins[i]) < AttrIndex(style, f.origins[j])

(* A list with two preferred handles of one stage, requested in the        *)
(* reverse of the fonts' name order, and fallback handles of two stages.   *)
C12_Witness ==
    /\ SearchedFont
    /\ ret.style = Some(StyleSlanted)
    /\ ReturnedFont.handles =
         << "memory:JetBrainsMono-Italic.ttf", "memory:JetBrainsMono-Bold-Italic.ttf",
            "sys:Noto Color Emoji", "memory:NotoColorEmoji.ttf" >>

(* C13: a search surfaces exactly one warning for each requested attribute *)
(* (preferred or fallback) left unsatisfied, and none for a satisfied one. *)
C13_WarningPerUnsatisfiedAttribute ==
    SearchedFont =>
        LET style == Unwrap(ret.style) IN
        \A k \in 1..Len(style.font) :
            Cardinality({w \in 1..Len(ret.warnings) :
                            ret.warnings[w].attr = style.font[k]})
              = IF k \in Unsatisfied(style, ReturnedFont) THEN 1 ELSE 0

----------------------------------------------------------------------------
(* LoadedFont::rasterize_glyph *)

LoadedFonts ==
    {fonts.fonts[style] : style \in DOMAIN fonts.fonts}

RasterizeReturned == ret.op = "rasterize_glyph"

(* C15: for each LoadedFont and fallback index the rasterizer is           *)
(* constructed at most once, on the first call for the index, and every    *)
(* call is served by that one rasterizer; a call with an index outside the *)
(* handle list returns an error and constructs nothing.                    *)
C15_RasterizerBuiltOnce ==
    /\ \A f \in LoadedFonts : \A i \in 1..Len(f.rasterizers) :
          /\ f.rasterizers[i].built <= 1
          /\ f.rasterizers[i].built = 1 =>
                f.rasterizers[i].raster = Some(new_rasterizer(f.handles[i], 1))
    /\ RasterizeReturned =>
          LET before == Unwrap(ret.before)
              after == fonts.fonts[Unwrap(ret.style)]
              out == Unwrap(ret.result)
              i == Unwrap(ret.args) + 1
          IN /\ i > Len(before.handles) =>
                   /\ ~out.result.ok /\ out.used = None /\ after = before
             /\ IsSome(out.used) =>
                   /\ out.used = Some(new_rasterizer(before.handles[i], 1))
                   /\ after.rasterizers[i].raster = out.used
                   /\ IsSome(before.rasterizers[i].raster) => after = before

(* A second call for an index is served by the rasterizer the first call   *)
(* constructed.                                                            *)
C15_Witness ==
    /\ RasterizeReturned
    /\ LET before == Unwrap(ret.before)
           i == Unwrap(ret.args) + 1
       IN /\ i <= Len(before.handles)
          /\ IsSome(before.rasterizers[i].raster)
          /\ Unwrap(ret.result).used = before.rasterizers[i].raster
          /\ \E j \in 1..Len(before.handles) : before.rasterizers[j].raster = None
----------------------------------------------------------------------------
(* Colours: the cursor and selection overlays, the foreground, reverse *)

CellReturned == ret.op = "compute_cell_fg_bg"

CursorColors ==
    [fg |-> [rgb |-> Palette.cursor_fg, alpha |-> 255],
     bg |-> [rgb |-> Palette.cursor_bg, alpha |-> 255]]

SelectionColors ==
    [fg |-> [rgb |-> Palette.selection_fg, alpha |-> 255],
     bg |-> [rgb |-> Palette.selection_bg, alpha |-> 255]]

(* The visibility formula, for the configuration cfg the call saw. *)
BlinkVisible(cfg, shape, elapsed) ==
    LET effective == IF shape = "Default" THEN cfg.default_cursor_style ELSE shape
    IN /\ effective # "Hidden"
       /\ \/ cfg.cursor_blink_rate = 0
          \/ effective \in {"SteadyBlock", "SteadyUnderline", "SteadyBar"}
          \/ (elapsed \div cfg.cursor_blink_rate) % 2 = 0

OnCursor(a) == a.cursor.y = a.line_idx /\ a.cursor.x = a.cell_idx

(* C16: the cell at the cursor position gets the cursor overlay iff the    *)
(* effective shape is not Hidden and (the blink rate is 0, or the shape is *)
(* non-blinking, or floor(elapsed / blink_rate) is even); no other cell    *)
(* gets it.                                                                *)
C16_CursorVisibility ==
    CellReturned =>
        LET a == Unwrap(ret.args)
            cfg == Unwrap(ret.before)
        IN (Unwrap(ret.result) = CursorColors)
             <=> (OnCursor(a) /\ BlinkVisible(cfg, a.cursor.shape, a.milli_uptime))

(* Blink rate 500ms: the cursor cell is drawn as cursor 1200ms after the   *)
(* window was created.                                                     *)
C16_Witness ==
    /\ CellReturned
    /\ Unwrap(ret.before).cursor_blink_rate = 500
    /\ Unwrap(ret.args).milli_uptime = 1200
    /\ OnCursor(Unwrap(ret.args))
    /\ Unwrap(ret.args).cursor.shape = "BlinkingBar"
    /\ Unwrap(ret.result) = CursorColors

(* C17: overlay precedence per cell: a visible cursor on the cell gives    *)
(* the cursor colours even when the cell is selected; otherwise a selected *)
(* cell gives the selection colours; otherwise the colours passed in are   *)
(* returned unchanged.  A cursor that is not visible overrides nothing.    *)
C17_OverlayPrecedence ==
    CellReturned =>
        LET a == Unwrap(ret.args)
            cfg == Unwrap(ret.before)
            visible == OnCursor(a) /\ BlinkVisible(cfg, a.cursor.shape, a.milli_uptime)
            selected == a.cell_idx \in {c \in 0..PhysicalCols :
                                          a.selection.start <= c /\ c < a.selection.end}
        IN Unwrap(ret.result) =
             IF visible THEN CursorColors
             ELSE IF selected THEN SelectionColors
             ELSE [fg |-> [rgb |-> Palette.foreground, alpha |-> 255],
                   bg |-> [rgb |-> Palette.background, alpha |-> 255]]

(* A selected cell under the visible cursor is drawn in cursor colours. *)
C17_Witness ==
    /\ CellReturned
    /\ LET a == Unwrap(ret.args) IN
         /\ OnCursor(a)
         /\ a.selection.start <= a.cell_idx /\ a.cell_idx < a.selection.end
    /\ Unwrap(ret.result) = CursorColors

ClusterReturned == ret.op = "cluster_colors"

(* The configuration the returned colours were computed under. *)
ClusterStyle == match_style(config, Unwrap(ret.attrs))

(* The foreground the property of C19 describes. *)
ExpectedForeground(style, attrs, foreground) ==
    CASE foreground.kind = "PaletteIndex" /\ foreground.idx < 8 ->
           Palette.colors[(IF attrs.intensity = "Bold" THEN foreground.idx + 8
                           ELSE foreground.idx) + 1]
      [] foreground.kind = "PaletteIndex" /\ foreground.idx >= 8 ->
           Palette.colors[foreground.idx + 1]
      [] foreground.kind = "TrueColor" -> foreground.rgb
      [] foreground.kind = "Default" ->
           IF style.foreground # None THEN style.foreground[1]
           ELSE Palette.foreground

(* C19: the resolved foreground of a cluster: palette entry i + 8 for an   *)
(* explicit index i < 8 with Bold intensity and entry i without; any other *)
(* explicit foreground as it is, not brightened; for the default           *)
(* foreground the matched style's, else the palette default.  Both         *)
(* backends give this result.                                              *)
C19_ForegroundResolution ==
    ClusterReturned =>
        LET attrs == Unwrap(ret.attrs)
            a == Unwrap(ret.args)
            out == Unwrap(ret.result)
            resolved == IF attrs.reverse THEN out.bg ELSE out.fg
        IN resolved = [rgb |-> ExpectedForeground(ClusterStyle, attrs, a.foreground),
                       alpha |-> 255]

(* Bold with palette index 3: the GPU backend resolves entry 11. *)
C19_Witness ==
    /\ ClusterReturned
    /\ Unwrap(ret.args).opengl
    /\ Unwrap(ret.args).foreground = PaletteIndex(3)
    /\ Unwrap(ret.attrs).intensity = "Bold"
    /\ ~Unwrap(ret.attrs).reverse
    /\ Unwrap(ret.result).fg = [rgb |-> "yellow", alpha |-> 255]

(* The colours of the cluster before the reverse step. *)
PreReverse ==
    LET attrs == Unwrap(ret.attrs)
        a == Unwrap(ret.args)
    IN [fg |-> ExpectedForeground(ClusterStyle, attrs, a.foreground),
        bg |-> IF a.background.kind = "Default" THEN Palette.background
               ELSE Palette.colors[a.background.idx + 1]]

CellColorsReturned == ret.op = "cell_colors"

(* The cell is selected or holds the visible cursor. *)
Overlaid ==
    LET a == Unwrap(ret.args) IN
    \/ a.selection.start <= a.cell_idx /\ a.cell_idx < a.selection.end
    \/ OnCursor(a) /\ BlinkVisible(Unwrap(ret.before), a.cursor.shape, a.milli_uptime)

(* What the reverse step makes of the pre-reverse pair. *)
Reversed(out) ==
    /\ Unwrap(ret.attrs).reverse =>
          /\ out.fg.rgb = PreReverse.bg
          /\ out.bg.rgb = PreReverse.fg
    /\ ~Unwrap(ret.attrs).reverse =>
          /\ out.fg.rgb = PreReverse.fg
          /\ out.bg.rgb = PreReverse.bg

(* C20, as stated: the final colours of every cell with the reverse        *)
(* attribute are the pre-reverse bg and fg, and of every cell without it   *)
(* the pre-reverse fg and bg.                                              *)
C20_FinalColorsReversed ==
    CellColorsReturned => Reversed(Unwrap(ret.result))

(* C20, amended: the colours of a cluster, and the final colours of each   *)
(* of its cells that no overlay applies to, are the pre-reverse bg and fg  *)
(* with the reverse attribute and the pre-reverse fg and bg without it;    *)
(* swapping twice gives the original pair back.                            *)
C20_ReverseSwaps ==
    (ClusterReturned \/ (CellColorsReturned /\ ~Overlaid)) =>
        LET once == reverse_swap(TRUE, PreReverse.fg, PreReverse.bg)
        IN /\ Reversed(Unwrap(ret.result))
           /\ reverse_swap(TRUE, once.fg, once.bg) = PreReverse

(* A reversed cell with no overlay, foreground and background different. *)
C20_Witness ==
    /\ CellColorsReturned /\ ~Overlaid
    /\ Unwrap(ret.attrs).reverse
    /\ PreReverse.fg # PreReverse.bg
    /\ Unwrap(ret.result).fg.rgb = PreReverse.bg
    /\ Unwrap(ret.result).bg.rgb = PreReverse.fg
----------------------------------------------------------------------------
(* A window of the Windows backend: new_window step by step, the messages  *)
(* the system sends to wnd_proc while CreateWindowExW runs and afterwards, *)
(* and the drop of the Window.                                             *)

MaxMessages == 4

Messages == {"WM_NCCREATE", "WM_NCDESTROY", "WM_CLOSE", "WM_GETMINMAXINFO"}

InitWndProc ==
    /\ config = ConfigValue(1, 0)
    /\ fonts = new_FontConfiguration(config)
    /\ ret = NoRet
    /\ allocs = 0
    /\ h_resolved = [s \in Styles |-> None]
    /\ NoWindow

OsLeaves == UNCHANGED <<fontVars, win, tab, timer, paint, log, panic, mux>>

(* new_window up to the call of create_window (window.rs:143-151) *)
NewWindow ==
    /\ os.pc = "none"
    /\ os' = [os EXCEPT !.pc = "create_window",
                        !.w = Some(arc_to_pointer(new_WindowInner))]
    /\ OsLeaves

(* What the system makes of the window once wnd_proc has returned result  *)
(* for msg: the default processing of WM_CLOSE starts the destruction of a *)
(* live window.                                                            *)
after_message(hwnd, msg, result) ==
    IF msg = "WM_NCCREATE" THEN "attached"
    ELSE IF msg = "WM_NCDESTROY" THEN "destroyed"
    ELSE IF msg = "WM_CLOSE" /\ hwnd = "alive" /\ result = "DefWindowProcW"
    THEN "closing"
    ELSE IF hwnd = "absent" THEN "creating" ELSE hwnd

(* The system calls wnd_proc with a message: WM_NCCREATE once while        *)
(* CreateWindowExW runs, WM_NCDESTROY when the window is destroyed after   *)
(* that (and, for all the handler knows, again), WM_CLOSE once the window  *)
(* has had a message, the others at any time.                              *)
WndProc(msg, can_close) ==
    /\ os.pc \in {"create_window", "created"}
    /\ os.ub = "none"
    /\ Len(os.handled) < MaxMessages
    /\ msg = "WM_NCCREATE" => os.pc = "create_window" /\ os.hwnd \in {"absent", "creating"}
    /\ msg = "WM_NCDESTROY" => os.hwnd \in {"attached", "alive", "closing", "destroyed"}
    /\ msg = "WM_CLOSE" => os.hwnd # "absent"
    /\ msg # "WM_CLOSE" => can_close
    /\ os' = [os EXCEPT
                !.w = Some(do_wnd_proc(Unwrap(os.w), msg, can_close).w),
                !.hwnd = after_message(@, msg, do_wnd_proc(Unwrap(os.w), msg, can_close).result),
                !.handled = Append(@,
                    [msg |-> msg, can_close |-> can_close,
                     attached |-> Unwrap(os.w).userdata # "null",
                     strong |-> Unwrap(os.w).strong,
                     hwnd |-> os.hwnd,
                     hwnd_after |-> after_message(os.hwnd, msg,
                          do_wnd_proc(Unwrap(os.w), msg, can_close).result),
                     out |-> do_wnd_proc(Unwrap(os.w), msg, can_close)])]
    /\ OsLeaves

(* create_window returns (window.rs:151-162): Ok needs a window that has   *)
(* had its WM_NCCREATE and was not destroyed; Err is what a failure of     *)
(* RegisterClassW or CreateWindowExW gives, whatever was delivered before. *)
CreateWindowReturns(ok) ==
    /\ os.pc = "create_window"
    /\ ok => os.hwnd = "attached"
    /\ os' = IF ok
             THEN [os EXCEPT !.pc = "created", !.hwnd = "alive",
                             !.w = Some([Unwrap(@) EXCEPT !.local = FALSE,
                                                         !.handle = TRUE])]
             ELSE [os EXCEPT !.pc = "drop_raw",
                             !.hwnd = IF @ = "absent" THEN @ ELSE "destroyed"]
    /\ OsLeaves

(* `drop(unsafe { Arc::from_raw(raw) })` (window.rs:155) *)
DropRaw ==
    /\ os.pc = "drop_raw"
    /\ os' = [os EXCEPT !.pc = "return_err",
                        !.w = Some(arc_drop([Unwrap(@) EXCEPT
                                                !.raw = FALSE,
                                                !.released = @ + 1]))]
    /\ OsLeaves

(* `return Err(err)` (window.rs:156) drops `inner`; if the WindowInner has *)
(* been freed already this is a use after free, with whatever outcome.     *)
ReturnErr ==
    /\ os.pc = "return_err"
    /\ IF Unwrap(os.w).strong > 0
       THEN os' = [os EXCEPT !.pc = "failed",
                             !.w = Some(arc_drop([Unwrap(@) EXCEPT !.local = FALSE]))]
       ELSE \E outcome \in {"crashed", "unnoticed"} :
               os' = [os EXCEPT !.pc = "failed", !.ub = outcome,
                                !.w = Some([Unwrap(@) EXCEPT !.local = FALSE])]
    /\ OsLeaves

(* The application drops its Window. *)
DropWindow ==
    /\ os.pc = "created"
    /\ Unwrap(os.w).handle
    /\ os' = [os EXCEPT !.w = Some(arc_drop([Unwrap(@) EXCEPT !.handle = FALSE]))]
    /\ OsLeaves

NextWndProc ==
    \/ NewWindow
    \/ \E msg \in Messages, can_close \in BOOLEAN : WndProc(msg, can_close)
    \/ \E ok \in BOOLEAN : CreateWindowReturns(ok)
    \/ DropRaw
    \/ ReturnErr
    \/ DropWindow

SpecWndProc == InitWndProc /\ [][NextWndProc]_vars

----------------------------------------------------------------------------
(* The blink timer *)

(* The blink phase at time t under the window's configuration. *)
BlinkPhase(t) == t \div config.cursor_blink_rate

BlinkingSinceCreation ==
    /\ win # None
    /\ config.generation = 0
    /\ config.cursor_blink_rate # 0
    /\ is_blinking(effective_shape(config.default_cursor_style, tab.cursor.shape))

(* C18: every phase flip of a blinking cursor is followed by a tick that   *)
(* marks all lines dirty before the phase flips again: two successive      *)
(* markings are never more than one phase apart, as they would not be if   *)
(* each tick marked the lines dirty whenever the phase had flipped since   *)
(* the tick before.                                                        *)
C18_EveryPhaseFlipMarksDirty ==
    (BlinkingSinceCreation /\ timer.marked) =>
        BlinkPhase(timer.last_blink_paint) - BlinkPhase(timer.prev_blink_paint) <= 1

(* The call of render_screen_line or render_screen_line_opengl that has    *)
(* returned, and what it has drawn.                                        *)
LineReturned == ret.op = "render_screen_line"
LineArgs == Unwrap(ret.args)
LineResult == Unwrap(ret.result)

(* The glyph loops were entered: the quad buffer had room for the line. *)
LineEntered == LineReturned /\ ~(LineArgs.opengl /\ ~LineArgs.vb_ok)

(* The units drawn for glyph p = <<cluster, glyph>>, in order. *)
UnitsOf(p) == SelectSeq(LineResult.units, LAMBDA u : u.from = p)

(* C21: a glyph with num_cells = N mapped to cell c is drawn in each of    *)
(* the cells c, c+1, .., c+N-1 below the physical column count, once and   *)
(* in this order, and in no other cell; nothing is drawn for a cell        *)
(* outside 0..num_cols-1.                                                  *)
C21_GlyphCellsTruncated ==
    LineEntered =>
        /\ \A i \in 1..Len(LineResult.units) :
              LineResult.units[i].cell \in 0..(LineArgs.num_cols - 1)
        /\ \A i \in 1..Len(glyphs_drawn(LineArgs.line, LineArgs.fail)) :
              LET p == glyphs_drawn(LineArgs.line, LineArgs.fail)[i]
                  info == LineArgs.line[p[1]].glyphs[p[2]]
              IN /\ Len(UnitsOf(p)) =
                      Cardinality({c \in info.cell..(info.cell + info.num_cells - 1) :
                                      c < LineArgs.num_cols})
                 /\ \A j \in 1..Len(UnitsOf(p)) :
                       /\ UnitsOf(p)[j].cell = info.cell + (j - 1)
                       /\ UnitsOf(p)[j].glyph_idx = j - 1

(* A glyph of two cells in the last column has been drawn in that column   *)
(* only, and a glyph of two cells before it in both of its cells.          *)
C21_Witness ==
    /\ LineEntered
    /\ \E k \in 1..Len(LineArgs.line) : \E g \in 1..Len(LineArgs.line[k].glyphs) :
          /\ LineArgs.line[k].glyphs[g].num_cells = 2
          /\ LineArgs.line[k].glyphs[g].cell = LineArgs.num_cols - 1
          /\ Len(UnitsOf(<<k, g>>)) = 1
          /\ UnitsOf(<<k, g>>)[1].cell = LineArgs.num_cols - 1

(* The units written for cell c by the call that has returned. *)
WrittenFor(c) == {i \in 1..Len(LineResult.units) : LineResult.units[i].cell = c}

(* Cell c is a cell of a glyph that was drawn. *)
CoveredByGlyph(c) ==
    \E i \in WrittenFor(c) : LineResult.units[i].from # <<0, 0>>

(* The background compute_cell_fg_bg gives a cell that holds no glyph. *)
ClearedBackground(c) ==
    compute_cell_fg_bg(config, LineArgs.line_idx, c, LineArgs.cursor,
                       LineArgs.selection,
                       rgbcolor_to_window_color(LineArgs.palette.foreground),
                       rgbcolor_to_window_color(LineArgs.palette.background),
                       LineArgs.palette, LineArgs.milli_uptime).bg

(* C22: after a line is rendered every cell 0..num_cols-1 has been written *)
(* in the call, and every cell that no glyph covers, cell 0 of a line      *)
(* without glyph cells included, has been filled with the background that  *)
(* the overlay precedence gives it.                                        *)
C22_EveryCellWritten ==
    (LineReturned /\ LineResult.ok) =>
        \A c \in 0..(LineArgs.num_cols - 1) :
            /\ WrittenFor(c) # {}
            /\ ~CoveredByGlyph(c) =>
                  \A i \in WrittenFor(c) :
                      /\ LineResult.units[i].content = "blank"
                      /\ LineResult.units[i].bg = ClearedBackground(c)

(* What a call has written, up to the form of emission: for every unit the *)
(* cell, its colours and the choice of content; the foreground of a        *)
(* cleared cell is used by neither backend.                                *)
Written(r) ==
    { [cell |-> r.units[i].cell, bg |-> r.units[i].bg,
       fg |-> IF r.units[i].from = <<0, 0>> THEN NoColor ELSE r.units[i].fg,
       content |-> r.units[i].content] : i \in 1..Len(r.units) }

(* C23: for the same line, selection, cursor, palette, highlight and cache *)
(* answers, render_screen_line and render_screen_line_opengl write the     *)
(* same cells, with the same fg/bg and the same choice of content (glyph,  *)
(* image or blank) in each.                                                *)
C23_BackendsAgree ==
    (LineReturned /\ LineArgs.vb_ok) =>
        Written(screen_line([LineArgs EXCEPT !.opengl = FALSE], config))
          = Written(screen_line([LineArgs EXCEPT !.opengl = TRUE], config))

(* A cell whose glyph has a texture and whose attributes hold an image     *)
(* that the cache has.                                                     *)
GlyphOverImage ==
    /\ LineArgs.image_ok
    /\ \E k \in 1..Len(LineArgs.line) :
          /\ IsSome(LineArgs.line[k].image)
          /\ \E g \in 1..Len(LineArgs.line[k].glyphs) :
                LineArgs.line[k].glyphs[g].texture

(* The line has been rendered twice, the second time by RenderAgain. *)
RenderedTwice == LineReturned /\ IsSome(ret.before)

(* The parity of the blink tick at t ms after created_instant. *)
BlinkParity(t) ==
    IF config.cursor_blink_rate = 0 THEN 0
    ELSE (t \div config.cursor_blink_rate) % 2

(* C24 as stated: rendering an unchanged line again, with cursor,          *)
(* selection, highlight, configuration and caches unchanged, draws the     *)
(* same primitives.                                                        *)
C24_Idempotent ==
    RenderedTwice => LineResult = Unwrap(ret.before).result

(* C24: rendering an unchanged line again, with cursor, selection,         *)
(* highlight, configuration and caches unchanged, draws the same           *)
(* primitives if the two calls fall into blink ticks of the same parity.   *)
C24_IdempotentWithinBlinkPhase ==
    (RenderedTwice
       /\ BlinkParity(LineArgs.milli_uptime)
            = BlinkParity(Unwrap(ret.before).milli_uptime))
    => LineResult = Unwrap(ret.before).result

(* A line under a blinking cursor rendered twice, at different times of    *)
(* the same blink parity, both times with the cursor drawn on it.          *)
C24_Witness ==
    /\ RenderedTwice
    /\ config.cursor_blink_rate # 0
    /\ LineArgs.cursor.y = LineArgs.line_idx
    /\ is_blinking(effective_shape(config.default_cursor_style,
                                   LineArgs.cursor.shape))
    /\ LineArgs.milli_uptime # Unwrap(ret.before).milli_uptime
    /\ BlinkParity(LineArgs.milli_uptime)
         = BlinkParity(Unwrap(ret.before).milli_uptime)
    /\ LineResult = Unwrap(ret.before).result
    /\ \E i \in 1..Len(LineResult.units) :
          /\ LineResult.units[i].cell = LineArgs.cursor.x
          /\ LineResult.units[i].bg = CursorColors.bg

(* The cluster has a hyperlink, a current highlight exists and the two are *)
(* the same.                                                               *)
HighlightedHyperlink(cluster) ==
    /\ cluster.hyperlink # None
    /\ LineArgs.current_highlight # None
    /\ cluster.hyperlink = LineArgs.current_highlight

(* C25: render_screen_line draws the cells of a cluster that is the        *)
(* highlighted hyperlink with a single underline if the cluster has none   *)
(* and with the cluster's own single or double underline otherwise; the    *)
(* cells of any other cluster are drawn with the cluster's own underline.  *)
C25_HyperlinkUnderline ==
    (LineReturned /\ ~LineArgs.opengl) =>
        \A i \in 1..Len(LineResult.units) :
            LineResult.units[i].from # <<0, 0>> =>
                LET cluster == LineArgs.line[LineResult.units[i].from[1]]
                    drawn == LineResult.units[i].underline
                IN /\ (HighlightedHyperlink(cluster)
                         /\ cluster.attrs.underline = "None")
                      => drawn = "Single"
                   /\ (HighlightedHyperlink(cluster)
                         /\ cluster.attrs.underline \in {"Single", "Double"})
                      => drawn = cluster.attrs.underline
                   /\ ~HighlightedHyperlink(cluster)
                      => drawn = cluster.attrs.underline

(* A cell of the highlighted hyperlink with a double underline of its own  *)
(* has been drawn with the double underline.                               *)
C25_Witness ==
    /\ LineReturned /\ ~LineArgs.opengl
    /\ \E i \in 1..Len(LineResult.units) :
          /\ LineResult.units[i].from # <<0, 0>>
          /\ HighlightedHyperlink(LineArgs.line[LineResult.units[i].from[1]])
          /\ LineArgs.line[LineResult.units[i].from[1]].attrs.underline = "Double"
          /\ LineResult.units[i].underline = "Double"

(* The events of the pass that is under way or has just ended: what the    *)
(* log holds after the latest entry of paint.                              *)
PassLog ==
    LET starts == {i \in 1..Len(log) : log[i].e = "paint"}
    IN IF starts = {} THEN <<>>
       ELSE SubSeq(log, (CHOOSE i \in starts : \A j \in starts : j <= i) + 1,
                   Len(log))

CleanCalls ==
    Cardinality({i \in 1..Len(PassLog) : PassLog[i].e = "clean_dirty_lines"})

(* s enumerates the set without repetition. *)
EachOnce(s, set) ==
    /\ {s[i] : i \in 1..Len(s)} = set
    /\ \A i, j \in 1..Len(s) : s[i] = s[j] => i = j

(* C26: in a paint pass the lines that were dirty when it began are        *)
(* iterated once and each rendered once; clean_dirty_lines is called once, *)
(* and only after every one of them has been rendered without error; when  *)
(* rendering a line fails it is not called and the lines stay dirty.       *)
C26_CleanOnlyAfterAllRendered ==
    /\ paint.pc \in {"lines", "done"} =>
          EachOnce(paint.drawn \o paint.todo, paint.dirty)
    /\ paint.pc = "done" =>
          /\ CleanCalls = 1
          /\ PassLog[Len(PassLog)].e = "clean_dirty_lines"
          /\ paint.todo = <<>>
          /\ EachOnce(paint.drawn, paint.dirty)
          /\ tab.dirty = {}
    /\ paint.pc \in {"tab_bar", "lines", "failed", "recreate"} =>
          /\ CleanCalls = 0
          /\ tab.dirty = paint.dirty
    /\ CleanCalls <= 1

(* A pass over two dirty lines that has rendered both and then marked     *)
(* them clean.                                                             *)
C26_Witness ==
    /\ paint.pc = "done"
    /\ Len(paint.drawn) >= 2
    /\ Cardinality(paint.dirty) >= 2
    /\ CleanCalls = 1
    /\ tab.dirty = {}

(* The text that was shaped and what shape_text returned for it. *)
ShapeReturned == ret.op = "shape_text" /\ Unwrap(ret.result).ok
ShapeArgs == Unwrap(ret.args)
Shaped == Unwrap(ret.result).val

(* The byte offset in the text of its char number i. *)
ByteOffset(text, i) == len(SubSeq(text, 1, i - 1))

(* C27: the cluster of every Resolved glyph, and the slice_start of every  *)
(* Unresolved run, is slice_index plus the byte offset in the text of the  *)
(* first char it stands for, variation selectors and enclosing marks       *)
(* included; the values do not decrease along the output.                  *)
C27_ClusterIsByteOffset ==
    ShapeReturned =>
        /\ \A k \in 1..Len(Shaped) :
              IF Shaped[k].kind = "Resolved"
              THEN Shaped[k].cluster
                     = ShapeArgs.slice_index + ByteOffset(ShapeArgs.text, Shaped[k].at)
              ELSE Shaped[k].slice_start
                     = ShapeArgs.slice_index + ByteOffset(ShapeArgs.text, Shaped[k].at)
        /\ \A j, k \in 1..Len(Shaped) :
              j < k => (IF Shaped[j].kind = "Resolved" THEN Shaped[j].cluster
                        ELSE Shaped[j].slice_start)
                         <= (IF Shaped[k].kind = "Resolved" THEN Shaped[k].cluster
                             ELSE Shaped[k].slice_start)

(* ---- the window procedure ---------------------------------------------- *)

HandledMessages == 1..Len(os.handled)

WindowInnerOf == Unwrap(os.w)

PreventedClose(h) == h.msg = "WM_CLOSE" /\ h.attached /\ ~h.can_close

(* C28: on WM_CLOSE the handler returns 0 without default processing, and  *)
(* the window is not destroyed, if can_close returns false; if it returns  *)
(* true or no WindowInner is attached, the message goes to default         *)
(* processing; can_close is called at most once (once iff a WindowInner is *)
(* attached).                                                              *)
C28_CloseHonoursCanClose ==
    \A i \in HandledMessages :
        os.handled[i].msg = "WM_CLOSE" =>
            /\ os.handled[i].out.result
                 = (IF PreventedClose(os.handled[i]) THEN "0" ELSE "DefWindowProcW")
            /\ os.handled[i].out.can_close_calls
                 = (IF os.handled[i].attached THEN 1 ELSE 0)
            /\ os.handled[i].out.destroy_calls = 0
            /\ PreventedClose(os.handled[i])
                 => os.handled[i].hwnd_after = os.handled[i].hwnd
            /\ (~PreventedClose(os.handled[i]) /\ os.handled[i].hwnd = "alive")
                 => os.handled[i].hwnd_after = "closing"

(* a close of a live window was prevented, a later one went through *)
C28_Witness ==
    \E i, j \in HandledMessages :
        /\ i < j
        /\ PreventedClose(os.handled[i]) /\ os.handled[i].hwnd = "alive"
        /\ os.handled[i].out.result = "0"
        /\ os.handled[j].msg = "WM_CLOSE" /\ os.handled[j].can_close
        /\ os.handled[j].attached
        /\ os.hwnd = "closing"

LiveOwners(w) ==
    (IF w.local THEN 1 ELSE 0) + (IF w.handle THEN 1 ELSE 0)
      + (IF w.raw THEN 1 ELSE 0)

(* C29: the stashed reference is released exactly once on every path: the  *)
(* strong count equals the number of live owners, is not zero while a      *)
(* Window or the local owner exists, and messages other than WM_NCDESTROY  *)
(* leave it unchanged.                                                     *)
C29_ReleasedExactlyOnce ==
    IsSome(os.w) =>
        /\ os.ub = "none"
        /\ WindowInnerOf.released <= 1
        /\ WindowInnerOf.strong = LiveOwners(WindowInnerOf)
        /\ (WindowInnerOf.local \/ WindowInnerOf.handle) => WindowInnerOf.strong > 0
        /\ os.pc = "failed" => WindowInnerOf.released = 1
        /\ \A i \in HandledMessages :
              os.handled[i].msg # "WM_NCDESTROY"
                 => os.handled[i].out.w.strong = os.handled[i].strong

FontSizeStep ==
    \E inp \in HandlerInputs(TRUE, win.dimensions) :
        \/ DecreaseFontSize(inp)
        \/ IncreaseFontSize(inp)
        \/ ResetFontSize(inp) /\ get_font_scale(fonts) # 1000

DpiOnlyResizeStep ==
    \E dimensions \in ResizeDimensions :
      \E inp \in HandlerInputs(TRUE, dimensions) :
        /\ Resize(dimensions, inp)
        /\ dimensions.dpi # win.dimensions.dpi
        /\ dimensions.pixel_width = win.dimensions.pixel_width
        /\ dimensions.pixel_height = win.dimensions.pixel_height

ConfigReloadStep == \E inp \in HandlerInputs(TRUE, win.dimensions) : RunApply(inp)

RowsAndCols(size) == <<size.rows, size.cols>>

(* C31: a handler that changes the scaling leaves the terminal's rows and  *)
(* cols as they were, and if it runs to its end it has resized the tabs of *)
(* the window to these rows and cols.                                      *)
C31_ScalingPreservesCells ==
    [][(FontSizeStep \/ DpiOnlyResizeStep \/ ConfigReloadStep) =>
          /\ RowsAndCols(win'.terminal_size) = RowsAndCols(win.terminal_size)
          /\ panic' = None =>
                /\ IsSome(tab'.resized)
                /\ RowsAndCols(Unwrap(tab'.resized)) = RowsAndCols(win.terminal_size)]_vars

(* The font size was increased: the cells are those of the new window, at  *)
(* a new window size asked of the window system.                           *)
C31_Witness ==
    /\ win # None /\ panic = None
    /\ get_font_scale(fonts) = scale_up(1000)
    /\ RowsAndCols(win.terminal_size) = <<NumLines, PhysicalCols>>
    /\ tab.resized = Some(win.terminal_size)
    /\ IsSome(win.inner_size)
    /\ Unwrap(win.inner_size).pixel_width > win.dimensions.pixel_width

(* ---- the walk of the font directories ----------------------------------- *)

HandleList(r) == [i \in 1..Len(r.handles) |-> r.handles[i].handle]

(* C32: the handles match_font_info returns depend on the fonts discovered *)
(* and on the font selection, not on the order of discovery: two walks of  *)
(* the same files give the same handle list.                               *)
C32_WalkOrderIndependent ==
    ret.op = "load_fonts" =>
        HandleList(Unwrap(ret.result)[1]) = HandleList(Unwrap(ret.result)[2])

(* The origin of the rectangle of cell c of the line of the call a. *)
CellOrigin(a, c) ==
    [x |-> config.window_padding.left + c * a.cell_width,
     y |-> config.window_padding.top + a.line_idx * a.cell_height]

(* C33: in the software backend every fill or draw for cell c of line l is *)
(* at (padding_left + c * cell_width, padding_top + l * cell_height), the  *)
(* clears after the last glyph included, and the marginal fill begins at   *)
(* the origin of the cell after the last column.                           *)
C33_PaddedCoordinates ==
    (LineReturned /\ ~LineArgs.opengl /\ LineResult.ok) =>
        /\ \A i \in 1..Len(LineResult.units) :
              [x |-> LineResult.units[i].x, y |-> LineResult.units[i].y]
                = CellOrigin(LineArgs, LineResult.units[i].cell)
        /\ [x |-> LineResult.margin.x, y |-> LineResult.margin.y]
             = CellOrigin(LineArgs, LineArgs.num_cols)

(* The units of the glyph loops, and those of the trailing clear. *)
GlyphUnits == SelectSeq(LineResult.units, LAMBDA u : u.from # <<0, 0>>)

ClearUnits == SelectSeq(LineResult.units, LAMBDA u : u.from = <<0, 0>>)

(* C34: the trailing clear of a line overwrites no cell that a glyph or    *)
(* image unit was emitted for: every cell it clears lies after the highest *)
(* cell written by any glyph, whatever the order of the glyphs' cells.     *)
C34_ClearAfterHighestGlyphCell ==
    (LineReturned /\ LineResult.ok) =>
        \A i \in 1..Len(GlyphUnits), j \in 1..Len(ClearUnits) :
            ClearUnits[j].cell > GlyphUnits[i].cell

(* A step in which the closure handed to window.apply runs                 *)
(* config_was_reloaded (termwindow.rs:487-492).                            *)
ApplyStep == timer.apply_pending /\ ~timer'.apply_pending

(* A step in which paint enters and check_for_config_reload runs           *)
(* config_was_reloaded (termwindow.rs:329-341, 694-698).                   *)
PaintReloadStep ==
    /\ paint.pc = "idle" /\ paint'.pc # "idle"
    /\ win.config_generation # config.generation

(* C35: config_was_reloaded is applied once per generation change,         *)
(* whichever of paint and the timer sees the change first: no run of it    *)
(* finds the window already at the current generation.                     *)
C35_AppliedOncePerGeneration ==
    [][(ApplyStep \/ PaintReloadStep) =>
          win.config_generation # config.generation]_vars

(* After a run of config_was_reloaded that did not panic the window is at  *)
(* the current generation.                                                 *)
C35_GenerationCurrentAfterwards ==
    [][((ApplyStep \/ PaintReloadStep) /\ panic' = None) =>
          win'.config_generation = config'.generation]_vars

(* C36: a font is loaded at dpi floor(dpi_scale * config.dpi), with        *)
(* dpi_scale the window dpi over 96, which is nonzero for every window dpi *)
(* (below 96 too) and differs between the window dpi 96 and 144.           *)
C36_LoadedFontDpi ==
    (/\ ret.op = "resolve_font" /\ ret.gen = config.generation
     /\ Unwrap(ret.result).ok) =>
        /\ Unwrap(ret.result).val.dpi = (fonts.dpi_scale * config.dpi) \div 96
        /\ Unwrap(ret.result).val.dpi > 0

(* ---- resize --------------------------------------------------------------- *)

ResizeReturned == ret.op = "resize" /\ ret.gen = config.generation

(* `pixels - padding`, stopping at 0 *)
avail_saturating(pixels, padding) ==
    IF pixels > padding THEN pixels - padding ELSE 0

(* The rows and cols of a window of the given dimensions. *)
ExpectedCells(w, cfg, dimensions) ==
    LET pad == cfg.window_padding
        by_height == avail_saturating(dimensions.pixel_height, pad.top + pad.bottom)
                         \div w.cell_size.height
        tab_bar == IF w.show_tab_bar THEN 1 ELSE 0
    IN <<IF by_height > tab_bar THEN by_height - tab_bar ELSE 0,
         avail_saturating(dimensions.pixel_width, pad.left + pad.right)
             \div w.cell_size.width>>

(* C37: a resize to zero width or height changes nothing; any other resize *)
(* computes the rows and cols without underflow or panic, also for a       *)
(* window smaller than the padding, where rows or cols is 0.               *)
C37_ResizeWithoutUnderflow ==
    ResizeReturned =>
        LET dimensions == Unwrap(ret.args)
            before == Unwrap(ret.before)
        IN IF dimensions.pixel_width = 0 \/ dimensions.pixel_height = 0
           THEN TheWorld = before
           ELSE /\ panic # Some("attempt to subtract with overflow")
                /\ (panic = None /\ dimensions.dpi = before.win.dimensions.dpi) =>
                      <<win.terminal_size.rows, win.terminal_size.cols>>
                          = ExpectedCells(win, config, dimensions)

(* ---- tabs ------------------------------------------------------------------ *)

(* C38: activate_tab_relative(delta) on a window of n > 0 tabs activates   *)
(* the tab (active + delta) mod n, for every delta; on a window without    *)
(* tabs it fails and changes nothing; the active index stays below n.      *)
C38_ActivateTabRelative ==
    /\ mux.len > 0 => mux.active < mux.len
    /\ ret.op = "activate_tab_relative" =>
          LET before == Unwrap(ret.before)
              delta == Unwrap(ret.args)
          IN IF before.len > 0
             THEN /\ Unwrap(ret.result).ok
                  /\ mux = MuxWindow(before.len, (before.active + delta) % before.len)
             ELSE /\ ~Unwrap(ret.result).ok
                  /\ mux = before

(* ---- mouse events ---------------------------------------------------------- *)

MouseReturned == ret.op = "mouse_event"

(* The event the call passed to tab.mouse_event, if it passed one. *)
Forwarded == Unwrap(ret.result)

(* The call's event was on the row of the tab bar: row 0, computed as      *)
(* mouse_event computes it, of a window that shows the tab bar.            *)
OnTabBarRow ==
    /\ Unwrap(ret.before).len > 0
    /\ win.show_tab_bar
    /\ win.last_mouse_coords[2] = 0

(* C39: an event forwarded to the tab has cell coordinates x >= 0 and      *)
(* y >= 0 wherever its pixel was, and an event on the tab bar row is not   *)
(* forwarded.                                                              *)
C39_ForwardedMouseEvents ==
    MouseReturned =>
        /\ IsSome(Forwarded) =>
              Unwrap(Forwarded).x >= 0 /\ Unwrap(Forwarded).y >= 0
        /\ OnTabBarRow => Forwarded = None

============================================================================
